---- MODULE Spec2Model ----
(***************************************************************************)
(* Order validation and scheduling engine of the bakery back end           *)
(* (back/src/domain/order/order.ts).                                        *)
(*                                                                         *)
(* A date is a number of hours since the midnight that opens day 0, and    *)
(* day 0 is a Sunday, so that Date.getDay() is (t \div 24) % 7 and         *)
(* Date.getHours() is t % 24.  NullDate and UndefinedDate stand for a      *)
(* date field that holds null or undefined.                                *)
(* Product objects have an identity: activeProducts is the caller's array  *)
(* of product objects, and an order line either holds a reference to one   *)
(* of them (ref = its index) or owns a detached object (ref = 0, own).     *)
(***************************************************************************)
EXTENDS Integers, Sequences, FiniteSets, TLC

VARIABLES now, activeProducts, order, last, period, repo

vars == <<now, activeProducts, order, last, period, repo>>

----------------------------------------------------------------------------
(* Bounds of the model *)

\* last day the clock of the model reaches (day 13 is a Saturday)
MaxClockDay == 13
\* number of days of the calendar offered to the commands of SpecSched
CalendarDays == 17
\* longest product list of a command
MaxProducts == 2

----------------------------------------------------------------------------
(* JavaScript values *)

NullDate == 0 - 1
UndefinedDate == 0 - 2
Undefined == "<undefined>"
Null == "<null>"
UndefinedId == 0
NoId == 0 - 1

\* the dates that !date takes for absent
NoDate == {NullDate, UndefinedDate}

\* lodash isEmpty on a string, null or undefined
isEmpty(s) == s \in {"", Undefined, Null}

HoursPerDay == 24

\* Date.getDay(): 0 = Sunday .. 6 = Saturday
getDay(t) == (t \div HoursPerDay) % 7
\* Date.getHours()
getHours(t) == t % HoursPerDay
\* calendar day of a date
DayOf(t) == t \div HoursPerDay
\* a date built from its calendar day and hour
At(day, hour) == day * HoursPerDay + hour
\* date.setDate(date.getDate() + n)
AddDays(t, n) == t + n * HoursPerDay

SUNDAY == 0
MONDAY == 1
TUESDAY == 2
WEDNESDAY == 3
THURSDAY == 4
FRIDAY == 5
SATURDAY == 6

----------------------------------------------------------------------------
(* date.constants, date.utils, order-pick-up-constraints,                  *)
(* order-delivery-constraints                                               *)

NUMBER_OF_DAYS_IN_A_WEEK == 7

CLOSING_DAYS == {SUNDAY, MONDAY}

MAXIMUM_HOUR_TO_PLACE_A_PICK_UP_ORDER_BEFORE_BEING_CONSIDERED_AS_PLACED_THE_FOLLOWING_DAY == 19

\* whenOrderIsPlacedOn -> firstAvailableDay
AVAILABLE_DAYS_FOR_A_PICK_UP_ORDER ==
  [d \in 0..6 |->
     CASE d = SUNDAY    -> TUESDAY
       [] d = MONDAY    -> THURSDAY
       [] d = TUESDAY   -> THURSDAY
       [] d = WEDNESDAY -> SATURDAY
       [] d = THURSDAY  -> TUESDAY
       [] d = FRIDAY    -> TUESDAY
       [] d = SATURDAY  -> TUESDAY]

DELIVERY_DAY == THURSDAY
MAXIMUM_DAY_FOR_DELIVERY_SAME_WEEK == TUESDAY
MAXIMUM_HOUR_FOR_DELIVERY_SAME_WEEK == 19

isFirstDateBeforeSecondDateIgnoringHours(first, second) == DayOf(first) < DayOf(second)

getNumberOfDaysBetweenFirstDateAndSecondDate(first, second) == DayOf(second) - DayOf(first)

----------------------------------------------------------------------------
(* Errors *)

NoError == [kind |-> "none", msg |-> "", nums |-> <<>>, text |-> ""]

InvalidOrderError(msg, nums) == [kind |-> "InvalidOrderError", msg |-> msg, nums |-> nums, text |-> ""]

InvalidOrderErrorText(msg, text) == [kind |-> "InvalidOrderError", msg |-> msg, nums |-> <<>>, text |-> text]

InvalidUserError(msg) == [kind |-> "InvalidUserError", msg |-> msg, nums |-> <<>>, text |-> ""]

\* the error of a call of something that is not a function
TypeError(msg) == [kind |-> "TypeError", msg |-> msg, nums |-> <<>>, text |-> ""]

\* the first error raised by a sequence of checks run one after the other
RECURSIVE FirstError(_)
FirstError(errs) ==
  IF errs = <<>> THEN NoError
  ELSE IF Head(errs) # NoError THEN Head(errs)
  ELSE FirstError(Tail(errs))

----------------------------------------------------------------------------
(* Order: the validations (order.ts) *)

PICK_UP == "PICK_UP"
DELIVERY == "DELIVERY"
RESERVATION == "RESERVATION"

\* Object.keys(OrderType)
OrderType == {PICK_UP, DELIVERY, RESERVATION}

EmailRegexMatches(address) == address \in {"test@example.org"}

assertClientNameIsValid(clientName) ==
  IF isEmpty(clientName) THEN InvalidOrderError("client name has to be defined", <<>>)
  ELSE NoError

assertClientPhoneNumberIsValid(clientPhoneNumber) ==
  IF isEmpty(clientPhoneNumber) THEN InvalidOrderError("client phone number has to be defined", <<>>)
  ELSE NoError

assertClientEmailAddressIsValid(clientEmailAddress) ==
  IF isEmpty(clientEmailAddress) THEN InvalidOrderError("client email address has to be defined", <<>>)
  ELSE IF ~EmailRegexMatches(clientEmailAddress)
    THEN InvalidOrderErrorText("invalid client email address", clientEmailAddress)
  ELSE NoError

\* variant of assertTypeIsValid: a reservation does not require an admin
assertTypeIsValidNoAdminCheck(type, isAdmin) ==
  IF isEmpty(type) THEN InvalidOrderError("order type has to be defined", <<>>)
  ELSE IF type \notin OrderType THEN InvalidOrderErrorText("unknown order type", type)
  ELSE NoError

assertTypeIsValid(type, isAdmin) ==
  IF isEmpty(type) THEN InvalidOrderError("order type has to be defined", <<>>)
  ELSE IF type \notin OrderType THEN InvalidOrderErrorText("unknown order type", type)
  ELSE IF type = RESERVATION /\ ~isAdmin
    THEN InvalidUserError("RESERVATION order type requires to be ADMIN")
  ELSE NoError

\* variant of assertProductsAreValid: only the quantity of the first line is checked
assertProductsAreValidFirstLineOnly(products) ==
  IF products = <<>> THEN InvalidOrderError("an order must have at least one product", <<>>)
  ELSE IF products[1].quantity < 1
    THEN InvalidOrderError("product quantity has to be positive", <<products[1].quantity>>)
  ELSE NoError

\* products.forEach: the first line, in list order, whose quantity is below 1
assertProductsAreValid(products) ==
  IF products = <<>> THEN InvalidOrderError("an order must have at least one product", <<>>)
  ELSE LET bad == {i \in 1..Len(products) : products[i].quantity < 1}
       IN IF bad = {} THEN NoError
          ELSE LET i == CHOOSE j \in bad : \A k \in bad : j <= k
               IN InvalidOrderError("product quantity has to be positive", <<products[i].quantity>>)

\* variant of InAClosingPeriod: the end date of a period is left outside it
InAClosingPeriodEndExcluded(closingPeriods, date) ==
  \E i \in 1..Len(closingPeriods) :
    date >= closingPeriods[i].startDate /\ date < closingPeriods[i].endDate

\* closingPeriods.forEach: some period holds the date, both bounds included
InAClosingPeriod(closingPeriods, date) ==
  \E i \in 1..Len(closingPeriods) :
    date >= closingPeriods[i].startDate /\ date <= closingPeriods[i].endDate

\* variant of assertPickUpDateIsValid: Sunday and Monday are not refused
assertPickUpDateIsValidNoClosingDays(type, closingPeriods, pickUpDate, clock) ==
  IF type # PICK_UP THEN NoError
  ELSE IF pickUpDate \in NoDate
    THEN InvalidOrderError("a pick-up date has to be defined when order type is pick-up", <<>>)
  ELSE IF isFirstDateBeforeSecondDateIgnoringHours(pickUpDate, clock)
    THEN InvalidOrderError("pick-up date has to be in the future", <<pickUpDate>>)
  ELSE IF InAClosingPeriod(closingPeriods, pickUpDate)
    THEN InvalidOrderError("pick-up date has to be outside closing periods", <<pickUpDate>>)
  ELSE NoError

assertPickUpDateIsValid(type, closingPeriods, pickUpDate, clock) ==
  IF type # PICK_UP THEN NoError
  ELSE IF pickUpDate \in NoDate
    THEN InvalidOrderError("a pick-up date has to be defined when order type is pick-up", <<>>)
  ELSE IF isFirstDateBeforeSecondDateIgnoringHours(pickUpDate, clock)
    THEN InvalidOrderError("pick-up date has to be in the future", <<pickUpDate>>)
  ELSE IF getDay(pickUpDate) \in CLOSING_DAYS
    THEN InvalidOrderError("pick-up date has to be between a Tuesday and a Saturday", <<pickUpDate>>)
  ELSE IF InAClosingPeriod(closingPeriods, pickUpDate)
    THEN InvalidOrderError("pick-up date has to be outside closing periods", <<pickUpDate>>)
  ELSE NoError

\* new Date(), then setDate(getDate() + 1) until getDay() is the wanted day
getNextDateHavingDay(day, clock) ==
  LET n == CHOOSE k \in 1..NUMBER_OF_DAYS_IN_A_WEEK :
             /\ getDay(AddDays(clock, k)) = day
             /\ \A j \in 1..(k - 1) : getDay(AddDays(clock, j)) # day
  IN AddDays(clock, n)

\* variant of assertPickUpDateIsEqualOrAfterTheFirstAvailableDay: only the day the order
\* counts as placed on is refused
assertPickUpDateIsEqualOrAfterTheFirstAvailableDaySameDayOnly(type, pickUpDate, clockLead, clockNext) ==
  IF type # PICK_UP THEN NoError
  ELSE
    LET nowShifted ==
          IF getHours(clockLead) >= MAXIMUM_HOUR_TO_PLACE_A_PICK_UP_ORDER_BEFORE_BEING_CONSIDERED_AS_PLACED_THE_FOLLOWING_DAY
          THEN AddDays(clockLead, 1) ELSE clockLead
    IN IF /\ getNumberOfDaysBetweenFirstDateAndSecondDate(nowShifted, pickUpDate) < NUMBER_OF_DAYS_IN_A_WEEK
          /\ getDay(nowShifted) - getDay(pickUpDate) = 0
         THEN InvalidOrderError("pick-up date cannot be same day as now", <<pickUpDate>>)
       ELSE NoError

\* variant of assertPickUpDateIsEqualOrAfterTheFirstAvailableDay: an order placed at
\* 19:00 or later is not moved to the following day
assertPickUpDateIsEqualOrAfterTheFirstAvailableDayNoCutoff(type, pickUpDate, clockLead, clockNext) ==
  IF type # PICK_UP THEN NoError
  ELSE
    LET numberOfDaysBetweenNowAndPickUpDate ==
          getNumberOfDaysBetweenFirstDateAndSecondDate(clockLead, pickUpDate)
        currentDay == getDay(clockLead)
        firstAvailableDate == getNextDateHavingDay(AVAILABLE_DAYS_FOR_A_PICK_UP_ORDER[currentDay], clockNext)
    IN IF numberOfDaysBetweenNowAndPickUpDate < NUMBER_OF_DAYS_IN_A_WEEK /\ currentDay - getDay(pickUpDate) = 0
         THEN InvalidOrderError("pick-up date cannot be same day as now", <<pickUpDate>>)
       ELSE IF isFirstDateBeforeSecondDateIgnoringHours(pickUpDate, firstAvailableDate)
         THEN InvalidOrderError("pick-up date has to be at least N days after now",
                <<pickUpDate, getNumberOfDaysBetweenFirstDateAndSecondDate(clockLead, firstAvailableDate)>>)
       ELSE NoError

\* variant of assertPickUpDateIsEqualOrAfterTheFirstAvailableDay: the same weekday of
\* the following week still counts as the same day
assertPickUpDateIsEqualOrAfterTheFirstAvailableDaySevenDays(type, pickUpDate, clockLead, clockNext) ==
  IF type # PICK_UP THEN NoError
  ELSE
    LET nowShifted ==
          IF getHours(clockLead) >= MAXIMUM_HOUR_TO_PLACE_A_PICK_UP_ORDER_BEFORE_BEING_CONSIDERED_AS_PLACED_THE_FOLLOWING_DAY
          THEN AddDays(clockLead, 1) ELSE clockLead
        currentDay == getDay(nowShifted)
        firstAvailableDate == getNextDateHavingDay(AVAILABLE_DAYS_FOR_A_PICK_UP_ORDER[currentDay], clockNext)
    IN IF /\ getNumberOfDaysBetweenFirstDateAndSecondDate(nowShifted, pickUpDate) <= NUMBER_OF_DAYS_IN_A_WEEK
          /\ currentDay - getDay(pickUpDate) = 0
         THEN InvalidOrderError("pick-up date cannot be same day as now", <<pickUpDate>>)
       ELSE IF isFirstDateBeforeSecondDateIgnoringHours(pickUpDate, firstAvailableDate)
         THEN InvalidOrderError("pick-up date has to be at least N days after now",
                <<pickUpDate, getNumberOfDaysBetweenFirstDateAndSecondDate(nowShifted, firstAvailableDate)>>)
       ELSE NoError

\* the clock is read twice: by getCurrentDateAtCanadaEasternTimeZone (clockLead)
\* and by new Date() in getNextDateHavingDay (clockNext)
assertPickUpDateIsEqualOrAfterTheFirstAvailableDay(type, pickUpDate, clockLead, clockNext) ==
  IF type # PICK_UP THEN NoError
  ELSE
    LET nowShifted ==
          IF getHours(clockLead) >= MAXIMUM_HOUR_TO_PLACE_A_PICK_UP_ORDER_BEFORE_BEING_CONSIDERED_AS_PLACED_THE_FOLLOWING_DAY
          THEN AddDays(clockLead, 1) ELSE clockLead
        numberOfDaysBetweenNowAndPickUpDate ==
          getNumberOfDaysBetweenFirstDateAndSecondDate(nowShifted, pickUpDate)
        isPickUpDateInTheNextSixDays == numberOfDaysBetweenNowAndPickUpDate < NUMBER_OF_DAYS_IN_A_WEEK
        currentDay == getDay(nowShifted)
        firstAvailableDay == AVAILABLE_DAYS_FOR_A_PICK_UP_ORDER[currentDay]
        firstAvailableDate == getNextDateHavingDay(firstAvailableDay, clockNext)
    IN IF isPickUpDateInTheNextSixDays /\ currentDay - getDay(pickUpDate) = 0
         THEN InvalidOrderError("pick-up date cannot be same day as now", <<pickUpDate>>)
       ELSE IF isFirstDateBeforeSecondDateIgnoringHours(pickUpDate, firstAvailableDate)
         THEN InvalidOrderError("pick-up date has to be at least N days after now",
                <<pickUpDate, getNumberOfDaysBetweenFirstDateAndSecondDate(nowShifted, firstAvailableDate)>>)
       ELSE NoError

assertDeliveryAddressIsValid(type, deliveryAddress) ==
  IF type = DELIVERY /\ isEmpty(deliveryAddress)
    THEN InvalidOrderError("a delivery address has to be defined when order type is delivery", <<>>)
  ELSE NoError

\* variant of assertDeliveryDateIsValid: the weekday of the date is not checked
assertDeliveryDateIsValidAnyDay(type, closingPeriods, deliveryDate, clock) ==
  IF type # DELIVERY THEN NoError
  ELSE IF deliveryDate \in NoDate
    THEN InvalidOrderError("a delivery date has to be defined when order type is delivery", <<>>)
  ELSE IF isFirstDateBeforeSecondDateIgnoringHours(deliveryDate, clock)
    THEN InvalidOrderError("delivery date has to be in the future", <<deliveryDate>>)
  ELSE IF InAClosingPeriod(closingPeriods, deliveryDate)
    THEN InvalidOrderError("delivery date has to be outside closing periods", <<deliveryDate>>)
  ELSE NoError

assertDeliveryDateIsValid(type, closingPeriods, deliveryDate, clock) ==
  IF type # DELIVERY THEN NoError
  ELSE IF deliveryDate \in NoDate
    THEN InvalidOrderError("a delivery date has to be defined when order type is delivery", <<>>)
  ELSE IF isFirstDateBeforeSecondDateIgnoringHours(deliveryDate, clock)
    THEN InvalidOrderError("delivery date has to be in the future", <<deliveryDate>>)
  ELSE IF InAClosingPeriod(closingPeriods, deliveryDate)
    THEN InvalidOrderError("delivery date has to be outside closing periods", <<deliveryDate>>)
  ELSE IF getDay(deliveryDate) # DELIVERY_DAY
    THEN InvalidOrderError("delivery date has to be a Thursday", <<deliveryDate>>)
  ELSE NoError

\* variant of assertDeliveryDateIsEqualOrAfterTheFirstAvailableDay: on a Tuesday the
\* same-week delivery is closed only after 19:00, 19:00 itself left out
assertDeliveryDateIsEqualOrAfterTheFirstAvailableDayAfterCutoff(type, deliveryDate, clock) ==
  IF type # DELIVERY THEN NoError
  ELSE
    IF /\ getNumberOfDaysBetweenFirstDateAndSecondDate(clock, deliveryDate) < NUMBER_OF_DAYS_IN_A_WEEK
       /\ getDay(clock) <= getDay(deliveryDate)
       /\ \/ getDay(clock) > MAXIMUM_DAY_FOR_DELIVERY_SAME_WEEK
          \/ /\ getDay(clock) = MAXIMUM_DAY_FOR_DELIVERY_SAME_WEEK
             /\ getHours(clock) > MAXIMUM_HOUR_FOR_DELIVERY_SAME_WEEK
      THEN InvalidOrderError("delivery date has to be one of the next available Thursday", <<deliveryDate>>)
    ELSE NoError

assertDeliveryDateIsEqualOrAfterTheFirstAvailableDay(type, deliveryDate, clock) ==
  IF type # DELIVERY THEN NoError
  ELSE
    LET numberOfDaysBetweenNowAndDeliveryDate ==
          getNumberOfDaysBetweenFirstDateAndSecondDate(clock, deliveryDate)
        isDeliveryDateInTheSameWeekAsNow ==
          /\ numberOfDaysBetweenNowAndDeliveryDate < NUMBER_OF_DAYS_IN_A_WEEK
          /\ getDay(clock) <= getDay(deliveryDate)
    IN IF /\ isDeliveryDateInTheSameWeekAsNow
          /\ \/ getDay(clock) > MAXIMUM_DAY_FOR_DELIVERY_SAME_WEEK
             \/ /\ getDay(clock) = MAXIMUM_DAY_FOR_DELIVERY_SAME_WEEK
                /\ getHours(clock) >= MAXIMUM_HOUR_FOR_DELIVERY_SAME_WEEK
         THEN InvalidOrderError("delivery date has to be one of the next available Thursday", <<deliveryDate>>)
       ELSE NoError

\* variant of assertReservationDateIsValid: the date and now are compared to the hour
assertReservationDateIsValidToTheHour(type, closingPeriods, reservationDate, clock) ==
  IF type # RESERVATION THEN NoError
  ELSE IF reservationDate \in NoDate
    THEN InvalidOrderError("a reservation date has to be defined when order type is reservation", <<>>)
  ELSE IF reservationDate < clock
    THEN InvalidOrderError("reservation date has to be in the future", <<reservationDate>>)
  ELSE IF getDay(reservationDate) \in CLOSING_DAYS
    THEN InvalidOrderError("reservation date has to be between a Tuesday and a Saturday", <<reservationDate>>)
  ELSE IF InAClosingPeriod(closingPeriods, reservationDate)
    THEN InvalidOrderError("reservation date has to be outside closing periods", <<reservationDate>>)
  ELSE NoError

assertReservationDateIsValid(type, closingPeriods, reservationDate, clock) ==
  IF type # RESERVATION THEN NoError
  ELSE IF reservationDate \in NoDate
    THEN InvalidOrderError("a reservation date has to be defined when order type is reservation", <<>>)
  ELSE IF isFirstDateBeforeSecondDateIgnoringHours(reservationDate, clock)
    THEN InvalidOrderError("reservation date has to be in the future", <<reservationDate>>)
  ELSE IF getDay(reservationDate) \in CLOSING_DAYS
    THEN InvalidOrderError("reservation date has to be between a Tuesday and a Saturday", <<reservationDate>>)
  ELSE IF InAClosingPeriod(closingPeriods, reservationDate)
    THEN InvalidOrderError("reservation date has to be outside closing periods", <<reservationDate>>)
  ELSE NoError

----------------------------------------------------------------------------
(* Order: the object and its binding steps (order.ts) *)

\* the fields of an object under construction, before the constructor sets them
NoOrder ==
  [id |-> NoId, clientName |-> Undefined, clientPhoneNumber |-> Undefined,
   clientEmailAddress |-> Undefined, products |-> <<>>, type |-> Undefined,
   pickUpDate |-> UndefinedDate, deliveryDate |-> UndefinedDate,
   deliveryAddress |-> Undefined, reservationDate |-> UndefinedDate, note |-> Undefined,
   checked |-> Undefined]

\* the values of the property checked of an order that has one
CheckedTrue == "true"
CheckedFalse == "false"

NoProduct == [id |-> 0, name |-> Undefined]

\* activeProducts.find(product => product.id === productId): its index, 0 when not found
FindActiveProduct(products, productId) ==
  LET hits == {j \in 1..Len(products) : products[j].id = productId}
  IN IF hits = {} THEN 0 ELSE CHOOSE j \in hits : \A k \in hits : j <= k

\* { product: foundProduct, quantity }: the line holds the found object itself
toProductWithQuantity(productIdWithQuantity, products) ==
  [ref |-> FindActiveProduct(products, productIdWithQuantity.productId),
   own |-> NoProduct,
   quantity |-> productIdWithQuantity.quantity]

\* the product object an order line holds, as it is now
ProductOf(line, products) == IF line.ref # 0 THEN products[line.ref] ELSE line.own

\* the products of an order as a reader of order.products sees them
ProductsOf(o, products) ==
  [i \in 1..Len(o.products) |->
     [product |-> ProductOf(o.products[i], products), quantity |-> o.products[i].quantity]]

\* a binding step returns the error it raised and the object as it left it
Raised(e, o) == [err |-> e, obj |-> o]

bindContactDetails(o, command) ==
  LET e == FirstError(<<assertClientNameIsValid(command.clientName),
                        assertClientPhoneNumberIsValid(command.clientPhoneNumber),
                        assertClientEmailAddressIsValid(command.clientEmailAddress)>>)
  IN IF e # NoError THEN Raised(e, o)
     ELSE Raised(NoError, [o EXCEPT !.clientName = command.clientName,
                                    !.clientPhoneNumber = command.clientPhoneNumber,
                                    !.clientEmailAddress = command.clientEmailAddress])

\* variant of bindProductSelection: the id reported is the last one that is not found
bindProductSelectionLastMissing(o, command, products) ==
  LET e == assertProductsAreValid(command.products)
      missing == {i \in 1..Len(command.products) :
                    FindActiveProduct(products, command.products[i].productId) = 0}
  IN IF e # NoError THEN Raised(e, o)
     ELSE IF missing # {}
       THEN LET i == CHOOSE j \in missing : \A k \in missing : j >= k
            IN Raised(InvalidOrderError("product with id not found", <<command.products[i].productId>>), o)
     ELSE Raised(NoError,
            [o EXCEPT !.products = [i \in 1..Len(command.products) |->
                                      toProductWithQuantity(command.products[i], products)]])

\* command.products.map(toProductWithQuantity): the first id that is not found is
\* reported; this.products is assigned once every line is resolved
bindProductSelection(o, command, products) ==
  LET e == assertProductsAreValid(command.products)
      missing == {i \in 1..Len(command.products) :
                    FindActiveProduct(products, command.products[i].productId) = 0}
  IN IF e # NoError THEN Raised(e, o)
     ELSE IF missing # {}
       THEN LET i == CHOOSE j \in missing : \A k \in missing : j <= k
            IN Raised(InvalidOrderError("product with id not found", <<command.products[i].productId>>), o)
     ELSE Raised(NoError,
            [o EXCEPT !.products = [i \in 1..Len(command.products) |->
                                      toProductWithQuantity(command.products[i], products)]])

\* variant of bindOrderTypeSelection: the delivery address is checked before the
\* delivery date
bindOrderTypeSelectionAddressFirst(o, command, closingPeriods, isAdmin, clock) ==
  LET e == FirstError(<<assertTypeIsValid(command.type, isAdmin),
                        assertPickUpDateIsValid(command.type, closingPeriods, command.pickUpDate, clock),
                        assertDeliveryAddressIsValid(command.type, command.deliveryAddress),
                        assertDeliveryDateIsValid(command.type, closingPeriods, command.deliveryDate, clock),
                        assertReservationDateIsValid(command.type, closingPeriods, command.reservationDate, clock)>>)
  IN IF e # NoError THEN Raised(e, o)
     ELSE Raised(NoError,
            [o EXCEPT !.type = command.type,
                      !.pickUpDate = IF command.type = PICK_UP THEN command.pickUpDate ELSE NullDate,
                      !.deliveryDate = IF command.type = DELIVERY THEN command.deliveryDate ELSE NullDate,
                      !.deliveryAddress = IF command.type = DELIVERY THEN command.deliveryAddress ELSE Null,
                      !.reservationDate = IF command.type = RESERVATION THEN command.reservationDate ELSE NullDate])

\* variant of bindOrderTypeSelection: only the fields of the command's type are written
bindOrderTypeSelectionKeepingOtherFields(o, command, closingPeriods, isAdmin, clock) ==
  LET e == FirstError(<<assertTypeIsValid(command.type, isAdmin),
                        assertPickUpDateIsValid(command.type, closingPeriods, command.pickUpDate, clock),
                        assertDeliveryDateIsValid(command.type, closingPeriods, command.deliveryDate, clock),
                        assertDeliveryAddressIsValid(command.type, command.deliveryAddress),
                        assertReservationDateIsValid(command.type, closingPeriods, command.reservationDate, clock)>>)
  IN IF e # NoError THEN Raised(e, o)
     ELSE Raised(NoError,
            [o EXCEPT !.type = command.type,
                      !.pickUpDate = IF command.type = PICK_UP THEN command.pickUpDate ELSE @,
                      !.deliveryDate = IF command.type = DELIVERY THEN command.deliveryDate ELSE @,
                      !.deliveryAddress = IF command.type = DELIVERY THEN command.deliveryAddress ELSE @,
                      !.reservationDate = IF command.type = RESERVATION THEN command.reservationDate ELSE @])

\* the five checks in the order of the code, then the type and the four fields
bindOrderTypeSelection(o, command, closingPeriods, isAdmin, clock) ==
  LET e == FirstError(<<assertTypeIsValid(command.type, isAdmin),
                        assertPickUpDateIsValid(command.type, closingPeriods, command.pickUpDate, clock),
                        assertDeliveryDateIsValid(command.type, closingPeriods, command.deliveryDate, clock),
                        assertDeliveryAddressIsValid(command.type, command.deliveryAddress),
                        assertReservationDateIsValid(command.type, closingPeriods, command.reservationDate, clock)>>)
  IN IF e # NoError THEN Raised(e, o)
     ELSE Raised(NoError,
            [o EXCEPT !.type = command.type,
                      !.pickUpDate = IF command.type = PICK_UP THEN command.pickUpDate ELSE NullDate,
                      !.deliveryDate = IF command.type = DELIVERY THEN command.deliveryDate ELSE NullDate,
                      !.deliveryAddress = IF command.type = DELIVERY THEN command.deliveryAddress ELSE Null,
                      !.reservationDate = IF command.type = RESERVATION THEN command.reservationDate ELSE NullDate])

\* then(r, next): the step next runs only when nothing was raised before it
Then(r, next(_)) == IF r.err # NoError THEN r ELSE next(r.obj)

\* new Order({}, command, activeProducts, closingPeriods, isAdmin) with the readings of
\* the clock the call makes: clockValid by the date check of the command's type
\* (getCurrentDateAtCanadaEasternTimeZone), clockLead by the lead-time rule of that type
\* (getCurrentDateAtCanadaEasternTimeZone), clockNext by getNextDateHavingDay (new Date())
ConstructReading(command, products, closingPeriods, isAdmin, clockValid, clockLead, clockNext) ==
  LET contact(o) == bindContactDetails(o, command)
      selection(o) == bindProductSelection(o, command, products)
      typed(o) == bindOrderTypeSelection(o, command, closingPeriods, isAdmin, clockValid)
      noted(o) == Raised(NoError, [o EXCEPT !.note = command.note])
      leadTime(o) ==
        IF isAdmin THEN Raised(NoError, o)
        ELSE Raised(FirstError(<<
               assertPickUpDateIsEqualOrAfterTheFirstAvailableDay(command.type, command.pickUpDate, clockLead, clockNext),
               assertDeliveryDateIsEqualOrAfterTheFirstAvailableDay(command.type, command.deliveryDate, clockLead)>>), o)
  IN Then(Then(Then(Then(contact([NoOrder EXCEPT !.id = UndefinedId]), selection), typed), noted), leadTime)

\* variant of Construct: the lead-time rules are applied to an admin as well
ConstructLeadTimeForAll(command, products, closingPeriods, isAdmin, clock) ==
  LET contact(o) == bindContactDetails(o, command)
      selection(o) == bindProductSelection(o, command, products)
      typed(o) == bindOrderTypeSelection(o, command, closingPeriods, isAdmin, clock)
      noted(o) == Raised(NoError, [o EXCEPT !.note = command.note])
      leadTime(o) ==
        Raised(FirstError(<<
          assertPickUpDateIsEqualOrAfterTheFirstAvailableDay(command.type, command.pickUpDate, clock, clock),
          assertDeliveryDateIsEqualOrAfterTheFirstAvailableDay(command.type, command.deliveryDate, clock)>>), o)
  IN Then(Then(Then(Then(contact([NoOrder EXCEPT !.id = UndefinedId]), selection), typed), noted), leadTime)

\* new Order({}, command, activeProducts, closingPeriods, isAdmin) when the clock shows
\* the same value, clock, at every reading of the call
Construct(command, products, closingPeriods, isAdmin, clock) ==
  ConstructReading(command, products, closingPeriods, isAdmin, clock, clock, clock)

\* variant of UpdateWith: the order id is compared once the command is bound
UpdateWithIdCheckedLast(o, command, products, closingPeriods, clock) ==
  LET selection(x) == bindProductSelection(x, command, products)
      typed(x) == bindOrderTypeSelection(x, command, closingPeriods, TRUE, clock)
      noted(x) == Raised(NoError, [x EXCEPT !.note = command.note])
      identified(x) ==
        IF o.id # command.orderId
          THEN Raised(InvalidOrderError("existing order id does not match command order id",
                                        <<o.id, command.orderId>>), x)
        ELSE Raised(NoError, x)
  IN Then(Then(Then(selection(o), typed), noted), identified)

\* variant of UpdateWith: the type and the dates are bound as for a non-admin
UpdateWithAsNonAdmin(o, command, products, closingPeriods, clock) ==
  IF o.id # command.orderId
    THEN Raised(InvalidOrderError("existing order id does not match command order id", <<o.id, command.orderId>>), o)
  ELSE
    LET selection(x) == bindProductSelection(x, command, products)
        typed(x) == bindOrderTypeSelection(x, command, closingPeriods, FALSE, clock)
        noted(x) == Raised(NoError, [x EXCEPT !.note = command.note])
    IN Then(Then(selection(o), typed), noted)

\* variant of UpdateWith: the contact details the command carries are written too
UpdateWithBindingContact(o, command, products, closingPeriods, clock) ==
  IF o.id # command.orderId
    THEN Raised(InvalidOrderError("existing order id does not match command order id", <<o.id, command.orderId>>), o)
  ELSE
    LET selection(x) == bindProductSelection(x, command, products)
        typed(x) == bindOrderTypeSelection(x, command, closingPeriods, TRUE, clock)
        noted(x) ==
          Raised(NoError,
            [x EXCEPT !.note = command.note,
                      !.clientName = IF command.clientName = Undefined THEN @ ELSE command.clientName])
    IN Then(Then(selection(o), typed), noted)

\* order.updateWith(command, activeProducts, closingPeriods)
UpdateWith(o, command, products, closingPeriods, clock) ==
  IF o.id # command.orderId
    THEN Raised(InvalidOrderError("existing order id does not match command order id", <<o.id, command.orderId>>), o)
  ELSE
    LET selection(x) == bindProductSelection(x, command, products)
        typed(x) == bindOrderTypeSelection(x, command, closingPeriods, TRUE, clock)
        noted(x) == Raised(NoError, [x EXCEPT !.note = command.note])
    IN Then(Then(selection(o), typed), noted)

\* variant of CopyOf: the fields of otherOrder are taken as they are, its lines keep the
\* product objects they hold
CopyOfShallow(otherOrder, products) == otherOrder

\* cloneDeep(otherOrder) copied field by field: every line owns a fresh product object
CopyOf(otherOrder, products) ==
  [otherOrder EXCEPT !.products =
     [i \in 1..Len(otherOrder.products) |->
        [ref |-> 0, own |-> ProductOf(otherOrder.products[i], products),
         quantity |-> otherOrder.products[i].quantity]]]

\* {} as NewOrderCommand: a command without any property
EmptyCommand ==
  [orderId |-> UndefinedId, clientName |-> Undefined, clientPhoneNumber |-> Undefined,
   clientEmailAddress |-> Undefined, products |-> <<>>, type |-> Undefined,
   pickUpDate |-> UndefinedDate, deliveryDate |-> UndefinedDate, deliveryAddress |-> Undefined,
   reservationDate |-> UndefinedDate, note |-> Undefined, closingPeriods |-> <<>>]

\* new Order(order, {}, [], [], false): an order that has a property is copied; one
\* without any (NoOrder) is empty for isEmpty and is constructed from the empty command.
\* products are the objects the lines of otherOrder may hold
FactoryCopy(otherOrder, products, clock) ==
  IF otherOrder # NoOrder
    THEN Raised(NoError, CopyOf(otherOrder, products))
    ELSE Construct(EmptyCommand, <<>>, <<>>, FALSE, clock)

----------------------------------------------------------------------------
(* ClosingPeriod (closing-period.ts) *)

InvalidClosingPeriodError(msg) ==
  [kind |-> "InvalidClosingPeriodError", msg |-> msg, nums |-> <<>>, text |-> ""]

\* no ClosingPeriod object
NoPeriod == [startDate |-> UndefinedDate, endDate |-> UndefinedDate]

\* variant of isBeforeNowIgnoringHours: the date is compared with now as it is
isBeforeNowWithHours(date, clock) == date < clock

\* now.setHours(date.getHours(), ...); date.getTime() < now.getTime()
isBeforeNowIgnoringHours(date, clock) ==
  LET nowAtHoursOfDate == At(DayOf(clock), getHours(date))
  IN date < nowAtHoursOfDate

assertStartDateIsValid(startDate, clock) ==
  IF startDate \in NoDate THEN InvalidClosingPeriodError("start date has to be defined")
  ELSE IF isBeforeNowIgnoringHours(startDate, clock)
    THEN InvalidClosingPeriodError("start date has to be in the future")
  ELSE NoError

\* variant of assertEndDateIsValid: an end date equal to the start date is refused
assertEndDateIsValidStrictlyGreater(startDate, endDate, clock) ==
  IF endDate \in NoDate THEN InvalidClosingPeriodError("end date has to be defined")
  ELSE IF isBeforeNowIgnoringHours(endDate, clock)
    THEN InvalidClosingPeriodError("end date has to be in the future")
  ELSE IF endDate <= startDate
    THEN InvalidClosingPeriodError("end date has to be greater than start date")
  ELSE NoError

assertEndDateIsValid(startDate, endDate, clock) ==
  IF endDate \in NoDate THEN InvalidClosingPeriodError("end date has to be defined")
  ELSE IF isBeforeNowIgnoringHours(endDate, clock)
    THEN InvalidClosingPeriodError("end date has to be in the future")
  ELSE IF endDate < startDate
    THEN InvalidClosingPeriodError("end date has to be greater than start date")
  ELSE NoError

\* new ClosingPeriod(command): the error raised and the object built
ConstructClosingPeriod(command, clock) ==
  LET e == FirstError(<<assertStartDateIsValid(command.startDate, clock),
                        assertEndDateIsValid(command.startDate, command.endDate, clock)>>)
  IN IF e # NoError THEN Raised(e, NoPeriod)
     ELSE Raised(NoError, [startDate |-> command.startDate, endDate |-> command.endDate])

----------------------------------------------------------------------------
(* The inputs of the model *)

\* every sequence over S of length at most n
RECURSIVE SeqsUpTo(_, _)
SeqsUpTo(S, n) ==
  IF n = 0 THEN {<<>>}
  ELSE LET shorter == SeqsUpTo(S, n - 1)
       IN shorter \cup {Append(q, x) : q \in shorter, x \in S}

\* the caller's array of active products (order.spec.ts: ids 42 and 1337)
InitialActiveProducts == <<[id |-> 42, name |-> "Product 1"], [id |-> 1337, name |-> "Product 2"]>>

\* lines of a command: two known ids, two unknown ids, a zero and a negative quantity
ProductLines ==
  {[productId |-> 42, quantity |-> 1], [productId |-> 1337, quantity |-> 2],
   [productId |-> 7, quantity |-> 1], [productId |-> 8, quantity |-> 3],
   [productId |-> 42, quantity |-> 0], [productId |-> 1337, quantity |-> 0 - 1]}

ProductLists == SeqsUpTo(ProductLines, MaxProducts)

\* Thursday of the week after the clock's week: valid for every order type
GoodDate == At(18, 10)

ClosingPeriod(startDate, endDate) == [startDate |-> startDate, endDate |-> endDate]

\* lists of closing periods of Spec: GoodDate is the end of p1, the start of p3, and
\* comes six hours after the end of p2
ClosingPeriodLists ==
  LET p1 == ClosingPeriod(At(13, 4), GoodDate)
      p2 == ClosingPeriod(At(7, 10), At(18, 4))
      p3 == ClosingPeriod(GoodDate, At(20, 10))
  IN {<<p1>>, <<p2>>, <<p3>>, <<p2, p1>>}

\* a call that create accepts for type t (admin for a reservation) and that updateWith
\* accepts for the order 42: the command and the closing periods given with it
BaseCommand(t) ==
  [orderId |-> 42, clientName |-> "John Doe", clientPhoneNumber |-> "514-123-4567",
   clientEmailAddress |-> "test@example.org",
   products |-> <<[productId |-> 42, quantity |-> 1]>>, type |-> t,
   pickUpDate |-> GoodDate, deliveryDate |-> GoodDate, deliveryAddress |-> "Laval",
   reservationDate |-> GoodDate, note |-> "a note",
   closingPeriods |-> <<>>]

\* dates of Spec: none, a past Sunday, today before the clock's hour, the coming
\* Sunday and Monday
LifeDates ==
  {NullDate, At(7, 10), At(13, 4), At(14, 10), At(15, 10)}

\* the values a field of a command of Spec takes instead of the base command's
CommandDomain ==
  [clientName |-> {""},
   clientPhoneNumber |-> {""},
   clientEmailAddress |-> {"", "not-a-valid-email"},
   products |-> ProductLists,
   type |-> {Undefined, "UNKNOWN_TYPE"},
   pickUpDate |-> LifeDates,
   deliveryDate |-> LifeDates,
   deliveryAddress |-> {"", "Montreal"},
   reservationDate |-> LifeDates,
   note |-> {""},
   closingPeriods |-> ClosingPeriodLists]

NewOrderFields ==
  {"clientName", "clientPhoneNumber", "clientEmailAddress", "products", "type",
   "pickUpDate", "deliveryDate", "deliveryAddress", "reservationDate", "note",
   "closingPeriods"}

UpdateOrderFields ==
  {"products", "type", "pickUpDate", "deliveryDate", "deliveryAddress",
   "reservationDate", "note", "closingPeriods"}

\* the commands that differ from a command of S in at most one of the fields
Deviate(S, fields) ==
  S \cup UNION {{[c EXCEPT ![f] = v] : v \in CommandDomain[f]} : c \in S, f \in fields}

\* a NewOrderCommand carries no order id, an UpdateOrderCommand no contact details
AsNewOrderCommand(c) == [c EXCEPT !.orderId = UndefinedId]
AsUpdateOrderCommand(c) ==
  [c EXCEPT !.clientName = Undefined, !.clientPhoneNumber = Undefined, !.clientEmailAddress = Undefined]

NewOrderCommands ==
  {AsNewOrderCommand(c) : c \in Deviate({BaseCommand(t) : t \in OrderType}, NewOrderFields)}

\* an object given as UpdateOrderCommand may carry contact details all the same
WithOtherContactDetails(c) ==
  [c EXCEPT !.clientName = "Jane Roe", !.clientPhoneNumber = "555-000-0000",
            !.clientEmailAddress = "jane@example.org"]

UpdateOrderCommands ==
  {AsUpdateOrderCommand(c) : c \in Deviate({BaseCommand(t) : t \in OrderType}, UpdateOrderFields)}
    \cup {WithOtherContactDetails(BaseCommand(t)) : t \in OrderType}

\* the persisted orders copy() is given (order.spec.ts): a pick-up order, one whose
\* delivery fields are set although its type is pick-up and whose line holds a product
\* object of the caller's array, and a checked one without products nor dates
PersistedOrders ==
  LET lines == <<[ref |-> 0, own |-> [id |-> 9998, name |-> "product 9998"], quantity |-> 98]>>
      o == [id |-> 42, clientName |-> "John Doe", clientPhoneNumber |-> "+1 514 111 1111",
            clientEmailAddress |-> "test@example.org", products |-> lines, type |-> PICK_UP,
            pickUpDate |-> At(13, 4), deliveryDate |-> NullDate, deliveryAddress |-> Null,
            reservationDate |-> NullDate, note |-> "a note", checked |-> Undefined]
  IN {o,
      [o EXCEPT !.deliveryDate = At(11, 12), !.deliveryAddress = "Montreal",
                !.reservationDate = UndefinedDate,
                !.products = <<[ref |-> 1, own |-> NoProduct, quantity |-> 98]>>],
      [o EXCEPT !.products = <<>>, !.pickUpDate = UndefinedDate, !.deliveryDate = UndefinedDate,
                !.deliveryAddress = Undefined, !.reservationDate = UndefinedDate,
                !.checked = CheckedTrue]}

----------------------------------------------------------------------------
(* The order repository and the update of an existing order *)

OrderNotFoundError(orderId) ==
  [kind |-> "OrderNotFoundError", msg |-> "Order not found with id", nums |-> <<orderId>>, text |-> ""]

\* the updates that run at the same time
Procs == {1, 2}

\* the id of the order the updates are about, and the id the database generates next
StoredId == 42
GeneratedId == 43

\* the row of the order in the table: every field by value
Row(o, products) == CopyOf(o, products)

\* the order the table holds at first
StoredOrder ==
  [id |-> StoredId, clientName |-> "John Doe", clientPhoneNumber |-> "+1 514 111 1111",
   clientEmailAddress |-> "test@example.org",
   products |-> <<[ref |-> 0, own |-> [id |-> 9998, name |-> "product 9998"], quantity |-> 98]>>,
   type |-> PICK_UP, pickUpDate |-> At(13, 4), deliveryDate |-> NullDate, deliveryAddress |-> Null,
   reservationDate |-> NullDate, note |-> "a note", checked |-> Undefined]

\* the commands of the updates: a pick-up, a delivery of another product, and a
\* command without products, which updateWith refuses
RepoCommands ==
  LET c == AsUpdateOrderCommand(BaseCommand(PICK_UP))
  IN {[c EXCEPT !.note = "first"],
      [c EXCEPT !.type = DELIVERY, !.products = <<[productId |-> 1337, quantity |-> 2]>>,
                !.deliveryAddress = "Montreal", !.note = "second"],
      [c EXCEPT !.products = <<>>, !.note = "third"]}

\* store: the rows of the table by id (NoOrder: no row); pc, held, cmd, err: where each
\* update is, the Order it holds, its command and the error it ended with; deleted: the
\* row has been deleted; raced: a save was made while the other update held a snapshot
InitialRepo ==
  [store |-> (StoredId :> StoredOrder) @@ (GeneratedId :> NoOrder),
   pc |-> [p \in Procs |-> "idle"],
   held |-> [p \in Procs |-> NoOrder],
   cmd |-> [p \in Procs |-> EmptyCommand],
   err |-> [p \in Procs |-> NoError],
   deleted |-> FALSE,
   raced |-> FALSE]

----------------------------------------------------------------------------
(* State machine *)

NoCommand == AsNewOrderCommand(AsUpdateOrderCommand(BaseCommand(Undefined)))

\* no call is being observed
NoCall ==
  [op |-> "none", command |-> NoCommand, isAdmin |-> FALSE, closingPeriods |-> <<>>,
   before |-> NoOrder, err |-> NoError, at |-> 0]

Idle == last.op = "none"

TypeOK ==
  /\ now \in Nat
  /\ Len(activeProducts) = Len(InitialActiveProducts)
  /\ last.op \in {"none", "create", "copy", "updateWith", "createClosingPeriod", "check", "uncheck"}

\* Spec follows one Order object from the last day of the clock's week
Init ==
  /\ now = At(MaxClockDay, 10)
  /\ activeProducts = InitialActiveProducts
  /\ order = NoOrder
  /\ last = NoCall
  /\ period = NoPeriod
  /\ repo = InitialRepo

\* Order.factory.create(command, activeProducts, closingPeriods, isAdmin)
CreateWith(command, closingPeriods, isAdmin) ==
  LET r == Construct(command, activeProducts, closingPeriods, isAdmin, now)
  IN /\ order' = IF r.err = NoError THEN r.obj ELSE order
     /\ last' = [op |-> "create", command |-> command, isAdmin |-> isAdmin,
                 closingPeriods |-> closingPeriods, before |-> order, err |-> r.err, at |-> now]
     /\ UNCHANGED <<now, activeProducts, period, repo>>

Create ==
  /\ Idle
  /\ order = NoOrder
  /\ \E command \in NewOrderCommands, isAdmin \in BOOLEAN :
       CreateWith(command, command.closingPeriods, isAdmin)

\* Order.factory.copy(order) of a persisted order or of an object without any property
Copy ==
  /\ Idle
  /\ order = NoOrder
  /\ \E source \in PersistedOrders \cup {NoOrder} :
    LET r == FactoryCopy(source, activeProducts, now)
    IN /\ order' = IF r.err = NoError THEN r.obj ELSE order
       /\ last' = [NoCall EXCEPT !.op = "copy", !.before = source, !.at = now, !.err = r.err]
       /\ UNCHANGED <<now, activeProducts, period, repo>>

\* order.updateWith(command, activeProducts, closingPeriods) on the order of the model
Update ==
  /\ Idle
  /\ order # NoOrder
  /\ \E command \in UpdateOrderCommands, orderId \in {order.id, 1337} :
    LET cmd == [command EXCEPT !.orderId = orderId]
        closingPeriods == command.closingPeriods
        r == UpdateWith(order, cmd, activeProducts, closingPeriods, now)
    IN /\ order' = r.obj
       /\ last' = [op |-> "updateWith", command |-> cmd, isAdmin |-> TRUE,
                   closingPeriods |-> closingPeriods, before |-> order, err |-> r.err, at |-> now]
       /\ UNCHANGED <<now, activeProducts, period, repo>>

\* order.check(): class Order has no member check, the call raises a TypeError
Check ==
  /\ Idle
  /\ order # NoOrder
  /\ last' = [NoCall EXCEPT !.op = "check", !.before = order, !.at = now,
                            !.err = TypeError("order.check is not a function")]
  /\ UNCHANGED <<now, activeProducts, order, period, repo>>

\* order.uncheck(): class Order has no member uncheck, the call raises a TypeError
Uncheck ==
  /\ Idle
  /\ order # NoOrder
  /\ last' = [NoCall EXCEPT !.op = "uncheck", !.before = order, !.at = now,
                            !.err = TypeError("order.uncheck is not a function")]
  /\ UNCHANGED <<now, activeProducts, order, period, repo>>

\* the caller has seen the outcome of the call (the value returned or the error thrown)
Return ==
  /\ ~Idle
  /\ last' = NoCall
  /\ UNCHANGED <<now, activeProducts, order, period, repo>>

\* the caller renames a product object of its activeProducts array
MutateProduct ==
  \E i \in 1..Len(activeProducts) :
    /\ Idle
    /\ order # NoOrder
    /\ activeProducts[i].name # "renamed"
    /\ activeProducts' = [activeProducts EXCEPT ![i].name = "renamed"]
    /\ UNCHANGED <<now, order, last, period, repo>>

\* time passes: from 10:00 to 19:00, from 19:00 to 10:00 of the next day
Tick ==
  /\ Idle
  /\ IF getHours(now) < 19
       THEN now' = At(DayOf(now), 19)
       ELSE DayOf(now) < MaxClockDay /\ now' = At(DayOf(now) + 1, 10)
  /\ UNCHANGED <<activeProducts, order, last, period, repo>>

Next == Create \/ Copy \/ Update \/ Check \/ Uncheck \/ Return \/ MutateProduct \/ Tick

Spec == Init /\ [][Next]_vars

----------------------------------------------------------------------------
(* SpecSched: one call, create or updateWith on a freshly copied order, with its   *)
(* date anywhere in the calendar, at every hour the clock shows in its week        *)

FirstCalendarDay == MaxClockDay - 7

\* the dates of the calendar: at 04:00 and at 19:00 of each of its days
Calendar ==
  {At(day, hour) : day \in FirstCalendarDay..(FirstCalendarDay + CalendarDays - 1), hour \in {4, 19}}

\* the date field that order type t reads
DateField(t) ==
  CASE t = PICK_UP -> "pickUpDate" [] t = DELIVERY -> "deliveryDate" [] t = RESERVATION -> "reservationDate"

\* no closing period, one whose bounds are dates of the calendar, or two
SchedClosingPeriodLists ==
  LET bounds == {At(9, 4), At(12, 19), At(16, 4), At(19, 19)}
  IN {<<>>, <<ClosingPeriod(At(9, 4), At(12, 19)), ClosingPeriod(At(16, 4), At(19, 19))>>}
       \cup {<<ClosingPeriod(p[1], p[2])>> : p \in {q \in bounds \X bounds : q[1] <= q[2]}}

SchedCalls ==
  {[[BaseCommand(t) EXCEPT ![DateField(t)] = d] EXCEPT !.closingPeriods = ps] :
     t \in OrderType, d \in Calendar \cup {NullDate}, ps \in SchedClosingPeriodLists}

InitSched ==
  /\ now = At(MaxClockDay - 6, 10)
  /\ activeProducts = InitialActiveProducts
  /\ order = NoOrder
  /\ last = NoCall
  /\ period = NoPeriod
  /\ repo = InitialRepo

CreateSched ==
  /\ Idle
  /\ order = NoOrder
  /\ \E call \in SchedCalls, isAdmin \in BOOLEAN :
       CreateWith(AsNewOrderCommand(call), call.closingPeriods, isAdmin)

\* Order.factory.copy(source).updateWith(command, activeProducts, closingPeriods)
UpdateCopy ==
  /\ Idle
  /\ order = NoOrder
  /\ \E call \in SchedCalls, source \in PersistedOrders :
    LET existingOrder == CopyOf(source, activeProducts)
        command == AsUpdateOrderCommand(call)
        r == UpdateWith(existingOrder, command, activeProducts, call.closingPeriods, now)
    IN /\ order' = r.obj
       /\ last' = [op |-> "updateWith", command |-> command, isAdmin |-> TRUE,
                   closingPeriods |-> call.closingPeriods, before |-> existingOrder,
                   err |-> r.err, at |-> now]
       /\ UNCHANGED <<now, activeProducts, period, repo>>

NextSched == CreateSched \/ UpdateCopy \/ Return \/ Tick

SpecSched == InitSched /\ [][NextSched]_vars

----------------------------------------------------------------------------
(* SpecClosing: closing periods created with dates anywhere in the calendar, or *)
(* absent, at every hour the clock shows in its week                             *)

NewClosingPeriodCommands ==
  [startDate : Calendar \cup NoDate, endDate : Calendar \cup NoDate]

\* ClosingPeriod.factory.create(command); period is the object the last call returned
CreateClosingPeriod ==
  /\ Idle
  /\ \E command \in NewClosingPeriodCommands :
       LET r == ConstructClosingPeriod(command, now)
       IN /\ period' = r.obj
          /\ last' = [op |-> "createClosingPeriod", command |-> command, isAdmin |-> FALSE,
                      closingPeriods |-> <<>>, before |-> NoOrder, err |-> r.err, at |-> now]
          /\ UNCHANGED <<now, activeProducts, order, repo>>

NextClosing == CreateClosingPeriod \/ Return \/ Tick

SpecClosing == InitSched /\ [][NextClosing]_vars

----------------------------------------------------------------------------
(* SpecRules: one call, create or updateWith on a freshly copied order, whose     *)
(* command may break several rules at once, at every hour the clock shows         *)

\* dates of SpecRules: none, a Saturday before the clock's week, the Monday and the
\* Thursday of the clock's week, the Sunday and the Thursday of the week after
RuleDates == {NullDate, At(6, 4), At(8, 4), At(11, 4), At(14, 4), At(18, 4)}

\* no closing period, or one from the first to the fifth of RuleDates
RuleClosingPeriodLists == {<<>>, <<ClosingPeriod(At(6, 4), At(14, 19))>>}

\* product lists of SpecRules: valid, empty, a zero quantity, an unknown id, both
RuleProductLists ==
  {<<[productId |-> 42, quantity |-> 1]>>,
   <<>>,
   <<[productId |-> 42, quantity |-> 0]>>,
   <<[productId |-> 7, quantity |-> 1]>>,
   <<[productId |-> 7, quantity |-> 1], [productId |-> 42, quantity |-> 0]>>}

\* the commands of SpecRules with contact details among names, phones and emails:
\* every combination of a good or a bad value of each field
RuleCalls(names, phones, emails) ==
  {[BaseCommand(t) EXCEPT !.clientName = n, !.clientPhoneNumber = ph, !.clientEmailAddress = e,
                          !.products = ps, !.pickUpDate = d, !.deliveryDate = d,
                          !.reservationDate = d, !.deliveryAddress = a, !.closingPeriods = cps] :
     n \in names, ph \in phones, e \in emails, ps \in RuleProductLists,
     t \in OrderType \cup {Undefined, "UNKNOWN_TYPE"}, d \in RuleDates,
     a \in {"Laval", ""}, cps \in RuleClosingPeriodLists}

CreateRules ==
  /\ Idle
  /\ order = NoOrder
  /\ \E call \in RuleCalls({"John Doe", ""}, {"514-123-4567", ""},
                            {"test@example.org", "", "not-a-valid-email"}),
        isAdmin \in BOOLEAN :
       CreateWith(AsNewOrderCommand(call), call.closingPeriods, isAdmin)

\* Order.factory.copy(source).updateWith(command, activeProducts, closingPeriods)
UpdateRules ==
  /\ Idle
  /\ order = NoOrder
  /\ \E call \in RuleCalls({Undefined}, {Undefined}, {Undefined}), source \in PersistedOrders :
    LET existingOrder == CopyOf(source, activeProducts)
        r == UpdateWith(existingOrder, call, activeProducts, call.closingPeriods, now)
    IN /\ order' = r.obj
       /\ last' = [op |-> "updateWith", command |-> call, isAdmin |-> TRUE,
                   closingPeriods |-> call.closingPeriods, before |-> existingOrder,
                   err |-> r.err, at |-> now]
       /\ UNCHANGED <<now, activeProducts, period, repo>>

NextRules == CreateRules \/ UpdateRules \/ Return \/ Tick

SpecRules == InitSched /\ [][NextRules]_vars

----------------------------------------------------------------------------
(* SpecDrift: one call during which the clock may move on, from before 19:00 to *)
(* 19:00 or from the evening to the next morning, between two of its readings   *)

\* the value the clock shows next
NextClock(c) == IF getHours(c) < 19 THEN At(DayOf(c), 19) ELSE At(DayOf(c) + 1, 10)

\* the three readings of a call that starts at c: each is the one before or the next
\* value of the clock, and the clock moves on once at most
Readings(c) ==
  {<<c, c, c>>, <<c, c, NextClock(c)>>, <<c, NextClock(c), NextClock(c)>>}

\* Order.factory.create(command, activeProducts, closingPeriods, isAdmin) while time
\* passes: last.at is the first reading, now is the last one
CreateDrift ==
  /\ Idle
  /\ order = NoOrder
  /\ DayOf(NextClock(now)) <= MaxClockDay
  /\ \E call \in SchedCalls, isAdmin \in BOOLEAN, r \in Readings(now) :
       LET command == AsNewOrderCommand(call)
           made == ConstructReading(command, activeProducts, call.closingPeriods, isAdmin,
                                    r[1], r[2], r[3])
       IN /\ order' = IF made.err = NoError THEN made.obj ELSE order
          /\ last' = [op |-> "create", command |-> command, isAdmin |-> isAdmin,
                      closingPeriods |-> call.closingPeriods, before |-> order,
                      err |-> made.err, at |-> r[1]]
          /\ now' = r[3]
          /\ UNCHANGED <<activeProducts, period, repo>>

NextDrift == CreateDrift \/ UpdateCopy \/ Return \/ Tick

SpecDrift == InitSched /\ [][NextDrift]_vars

----------------------------------------------------------------------------
(* SpecStore: two updates of the stored order, each findById, updateWith, save, *)
(* and another actor that deletes the order, their steps in any order            *)

\* findById(orderId): rejects with OrderNotFoundError when no row has the id; the
\* update then holds Order.factory.copy of what it found
FindById(p) ==
  /\ repo.pc[p] = "idle"
  /\ \E command \in RepoCommands :
       LET found == repo.store[StoredId]
       IN repo' = IF found = NoOrder
                    THEN [repo EXCEPT !.pc[p] = "failed", !.cmd[p] = command,
                                      !.err[p] = OrderNotFoundError(StoredId)]
                    ELSE [repo EXCEPT !.pc[p] = "loaded", !.cmd[p] = command,
                                      !.held[p] = FactoryCopy(found, activeProducts, now).obj]
  /\ UNCHANGED <<now, activeProducts, order, last, period>>

\* order.updateWith(command, activeProducts, closingPeriods) on the Order the update holds
UpdateHeld(p) ==
  /\ repo.pc[p] = "loaded"
  /\ LET command == repo.cmd[p]
         r == UpdateWith(repo.held[p], command, activeProducts, command.closingPeriods, now)
     IN repo' = IF r.err # NoError
                  THEN [repo EXCEPT !.pc[p] = "failed", !.err[p] = r.err, !.held[p] = r.obj]
                  ELSE [repo EXCEPT !.pc[p] = "updated", !.held[p] = r.obj]
  /\ UNCHANGED <<now, activeProducts, order, last, period>>

\* save(order): the entity of the order is written, nothing is checked before.
\* orderEntityRepository.save writes the row of the entity's id when there is one; when
\* there is none the entity is inserted, under its id or under a generated one
Save(p) ==
  /\ repo.pc[p] = "updated"
  /\ \E id \in (IF repo.store[repo.held[p].id] # NoOrder
                  THEN {repo.held[p].id} ELSE {repo.held[p].id, GeneratedId}) :
       repo' = [repo EXCEPT !.store[id] = [Row(repo.held[p], activeProducts) EXCEPT !.id = id],
                            !.pc[p] = "done",
                            !.raced = @ \/ \E q \in Procs \ {p} : repo.pc[q] \in {"loaded", "updated"}]
  /\ UNCHANGED <<now, activeProducts, order, last, period>>

\* delete(order) by another actor
Delete ==
  /\ repo.store[StoredId] # NoOrder
  /\ ~repo.deleted
  /\ repo' = [repo EXCEPT !.store[StoredId] = NoOrder, !.deleted = TRUE]
  /\ UNCHANGED <<now, activeProducts, order, last, period>>

NextStore ==
  \/ \E p \in Procs : FindById(p) \/ UpdateHeld(p) \/ Save(p)
  \/ Delete

SpecStore == InitSched /\ [][NextStore]_vars

----------------------------------------------------------------------------
(* What a caller observes of the call in progress *)

Cmd == last.command

Called(op) == last.op = op

CreateOrUpdate == last.op \in {"create", "updateWith"}

Accepted == last.err = NoError

\* the date of the command that its order type reads
OwnDate(c) ==
  CASE c.type = PICK_UP -> c.pickUpDate
    [] c.type = DELIVERY -> c.deliveryDate
    [] c.type = RESERVATION -> c.reservationDate
    [] OTHER -> NullDate

\* the contact details of a creation command are acceptable
ContactDetailsAreValid(c) ==
  /\ c.clientName \notin {"", Undefined, Null}
  /\ c.clientPhoneNumber \notin {"", Undefined, Null}
  /\ c.clientEmailAddress = "test@example.org"

\* the call gets as far as the product selection
ReachesProducts ==
  \/ Called("create") /\ ContactDetailsAreValid(Cmd)
  \/ Called("updateWith") /\ last.before.id = Cmd.orderId

KnownIds == {activeProducts[j].id : j \in 1..Len(activeProducts)}

ProductSelectionIsValid(c) ==
  /\ Len(c.products) >= 1
  /\ \A i \in 1..Len(c.products) : c.products[i].quantity >= 1 /\ c.products[i].productId \in KnownIds

\* the call gets as far as the checks of the dates of a known order type
ReachesDates ==
  /\ ReachesProducts
  /\ ProductSelectionIsValid(Cmd)
  /\ Cmd.type \in OrderType
  /\ Cmd.type = RESERVATION => last.isAdmin

\* some closing period holds date d, its start and end dates included
Inside(periods, d) ==
  \E i \in 1..Len(periods) : periods[i].startDate <= d /\ d <= periods[i].endDate

\* the calendar day the order counts as placed on: the day after from 19:00 on
EffectiveDay == DayOf(last.at) + (IF getHours(last.at) >= 19 THEN 1 ELSE 0)

\* the first calendar day after day whose weekday is weekday
NextOccurrence(day, weekday) ==
  CHOOSE f \in (day + 1)..(day + 7) : f % 7 = weekday

\* a creation by a non-admin of a pick-up order that passes every check made before
\* the lead-time rule
LeadTimeCase ==
  /\ Called("create")
  /\ ~last.isAdmin
  /\ ReachesDates
  /\ Cmd.type = PICK_UP
  /\ Cmd.pickUpDate \notin NoDate
  /\ DayOf(Cmd.pickUpDate) >= DayOf(last.at)
  /\ getDay(Cmd.pickUpDate) \in 2..6
  /\ ~Inside(last.closingPeriods, Cmd.pickUpDate)

----------------------------------------------------------------------------
(* Claims *)

\* C1: after a successful create or updateWith the order has the type of the command,
\* the date field of that type holds the command's date, the date fields of the other
\* types are null, and deliveryAddress is the command's for a delivery and null otherwise.
C1_FieldsFollowType ==
  (CreateOrUpdate /\ Accepted) =>
    /\ order.type = Cmd.type
    /\ order.pickUpDate = (IF Cmd.type = PICK_UP THEN Cmd.pickUpDate ELSE NullDate)
    /\ order.deliveryDate = (IF Cmd.type = DELIVERY THEN Cmd.deliveryDate ELSE NullDate)
    /\ order.reservationDate = (IF Cmd.type = RESERVATION THEN Cmd.reservationDate ELSE NullDate)
    /\ order.deliveryAddress = (IF Cmd.type = DELIVERY THEN Cmd.deliveryAddress ELSE Null)

\* an order that held a pick-up date is updated to a delivery by a command that also
\* carries a pick-up date, and its pick-up date is null afterwards
C1_Witness ==
  /\ Called("updateWith") /\ Accepted
  /\ Cmd.type = DELIVERY
  /\ Cmd.pickUpDate \notin NoDate
  /\ last.before.pickUpDate \notin NoDate
  /\ order.pickUpDate = NullDate
  /\ order.deliveryAddress = Cmd.deliveryAddress

\* C2 (as the spec states it): an updateWith that raises an error leaves every field of
\* the order as it was before the call.
C2_FailedUpdateChangesNothing ==
  (Called("updateWith") /\ ~Accepted) => order = last.before

\* C3: an updateWith whose command names another order id raises the id mismatch error,
\* with both ids, whatever else the command holds, and leaves every field unchanged.
C3_IdMismatchFirst ==
  (Called("updateWith") /\ last.before.id # Cmd.orderId) =>
    /\ last.err = InvalidOrderError("existing order id does not match command order id",
                                    <<last.before.id, Cmd.orderId>>)
    /\ order = last.before

\* the id differs and the rest of the command would have been refused as well
C3_Witness ==
  /\ Called("updateWith")
  /\ last.before.id # Cmd.orderId
  /\ ~ProductSelectionIsValid(Cmd)
  /\ last.err.msg = "existing order id does not match command order id"
  /\ order = last.before

\* C4: a creation of a RESERVATION order by a non-admin whose contact details and
\* products are valid is refused with the InvalidUserError, whatever its reservation
\* date; the same creation by an admin with a valid reservation date is accepted.
C4_ReservationRequiresAdmin ==
  (/\ Called("create")
   /\ Cmd.type = RESERVATION
   /\ ContactDetailsAreValid(Cmd)
   /\ ProductSelectionIsValid(Cmd)) =>
    LET d == Cmd.reservationDate
        dateIsValid ==
          /\ d \notin NoDate
          /\ DayOf(d) >= DayOf(last.at)
          /\ getDay(d) \in 2..6
          /\ ~Inside(last.closingPeriods, d)
    IN /\ ~last.isAdmin => last.err = InvalidUserError("RESERVATION order type requires to be ADMIN")
       /\ (last.isAdmin /\ dateIsValid) =>
            (Accepted /\ order.type = RESERVATION /\ order.reservationDate = d)

\* a non-admin asks for a reservation on a Sunday that lies in the past and inside a
\* closing period, and is refused as a non-admin
C4_Witness ==
  /\ Called("create")
  /\ Cmd.type = RESERVATION
  /\ ~last.isAdmin
  /\ Cmd.reservationDate \notin NoDate
  /\ DayOf(Cmd.reservationDate) < DayOf(last.at)
  /\ getDay(Cmd.reservationDate) = SUNDAY
  /\ last.err.kind = "InvalidUserError"

\* C5: when the product selection is reached with a non-empty list of positive
\* quantities, either every id is the id of an active product, and then no product
\* error is raised and an accepted order has one line per line of the command, in the
\* same order, holding the active product of that id (a member of activeProducts) and
\* the command's quantity; or the call fails with 'product with id X not found', X being the first id of the list that
\* is the id of no active product.
C5_ProductResolution ==
  (/\ CreateOrUpdate
   /\ ReachesProducts
   /\ Len(Cmd.products) >= 1
   /\ \A i \in 1..Len(Cmd.products) : Cmd.products[i].quantity >= 1) =>
    LET lines == Cmd.products
        unresolved == {i \in 1..Len(lines) : lines[i].productId \notin KnownIds}
    IN IF unresolved = {}
         THEN /\ last.err.msg \notin {"an order must have at least one product",
                                      "product quantity has to be positive",
                                      "product with id not found"}
              /\ Accepted =>
                   /\ Len(order.products) = Len(lines)
                   /\ \A i \in 1..Len(lines) :
                        /\ order.products[i].ref \in 1..Len(activeProducts)
                        /\ ProductOf(order.products[i], activeProducts).id = lines[i].productId
                        /\ order.products[i].quantity = lines[i].quantity
         ELSE \E i \in unresolved :
                /\ \A k \in unresolved : i <= k
                /\ last.err = InvalidOrderError("product with id not found", <<lines[i].productId>>)

\* two ids of the command are unknown and the first of the two is the one reported
C5_Witness ==
  /\ CreateOrUpdate
  /\ Len(Cmd.products) = 2
  /\ Cmd.products[1].productId \notin KnownIds
  /\ Cmd.products[2].productId \notin KnownIds
  /\ Cmd.products[1].productId # Cmd.products[2].productId
  /\ last.err = InvalidOrderError("product with id not found", <<Cmd.products[1].productId>>)

\* C6 (as the spec states it): the products of an order are a snapshot: a change made
\* to a product object of the catalogue does not change what order.products shows.
C6_ProductsAreSnapshots ==
  [][activeProducts' # activeProducts =>
       ProductsOf(order', activeProducts') = ProductsOf(order, activeProducts)]_vars

\* a create or updateWith of a pick-up order whose pick-up date is a Sunday or a Monday
ClosedDayPickUp ==
  /\ CreateOrUpdate
  /\ Cmd.type = PICK_UP
  /\ Cmd.pickUpDate \notin NoDate
  /\ getDay(Cmd.pickUpDate) \in {SUNDAY, MONDAY}

BetweenTuesdayAndSaturday(d) ==
  InvalidOrderError("pick-up date has to be between a Tuesday and a Saturday", <<d>>)

\* C7 (as the spec states it): a pick-up command whose date is a Sunday or a Monday
\* fails with 'has to be between a Tuesday and a Saturday' on create and on updateWith,
\* whatever the admin flag, the closing periods and the current time.
C7_ClosedDayWhateverTheTime ==
  (ClosedDayPickUp /\ ReachesDates) => last.err = BetweenTuesdayAndSaturday(Cmd.pickUpDate)

\* C7 (amended): such a command always fails; when the checks made before the pick-up
\* date pass, the error is 'has to be in the future' for a date before today and
\* 'has to be between a Tuesday and a Saturday' otherwise, whatever the admin flag and
\* the closing periods.
C7_ClosedDayRefused ==
  ClosedDayPickUp =>
    /\ ~Accepted
    /\ ReachesDates =>
         last.err = (IF DayOf(Cmd.pickUpDate) < DayOf(last.at)
                       THEN InvalidOrderError("pick-up date has to be in the future", <<Cmd.pickUpDate>>)
                       ELSE BetweenTuesdayAndSaturday(Cmd.pickUpDate))

\* an admin updates an order to a coming Monday that lies inside a closing period, after
\* 19:00, and the weekday is what the error names
C7_Witness ==
  /\ ClosedDayPickUp
  /\ Called("updateWith")
  /\ getDay(Cmd.pickUpDate) = MONDAY
  /\ getHours(last.at) >= 19
  /\ Inside(last.closingPeriods, Cmd.pickUpDate)
  /\ last.err = BetweenTuesdayAndSaturday(Cmd.pickUpDate)

\* the error the same call raises when it is given no closing period
OutcomeWithoutClosingPeriods ==
  IF Called("create")
    THEN Construct(Cmd, activeProducts, <<>>, last.isAdmin, last.at).err
    ELSE UpdateWith(last.before, Cmd, activeProducts, <<>>, last.at).err

\* C8: a pick-up, delivery or reservation date is accepted exactly when it lies in no
\* closing period (start and end dates included) and the same call without closing
\* periods is accepted; a date inside a period that passes the date checks made before
\* the closing periods is refused with '<type> date has to be outside closing periods'.
C8_ClosingPeriodsInclusive ==
  (CreateOrUpdate /\ Cmd.type \in OrderType /\ OwnDate(Cmd) \notin NoDate) =>
    LET d == OwnDate(Cmd)
        inside == Inside(last.closingPeriods, d)
        word == CASE Cmd.type = PICK_UP -> "pick-up date has to be outside closing periods"
                  [] Cmd.type = DELIVERY -> "delivery date has to be outside closing periods"
                  [] Cmd.type = RESERVATION -> "reservation date has to be outside closing periods"
    IN /\ Accepted <=> (~inside /\ OutcomeWithoutClosingPeriods = NoError)
       /\ (/\ inside
           /\ ReachesDates
           /\ DayOf(d) >= DayOf(last.at)
           /\ Cmd.type # DELIVERY => getDay(d) \in 2..6) =>
            last.err = InvalidOrderError(word, <<d>>)

\* the date is the very end date of a closing period and the call, which would have
\* been accepted without the period, is refused for it
C8_Witness ==
  /\ CreateOrUpdate
  /\ Cmd.type \in OrderType
  /\ \E i \in 1..Len(last.closingPeriods) :
       /\ last.closingPeriods[i].endDate = OwnDate(Cmd)
       /\ last.closingPeriods[i].startDate < OwnDate(Cmd)
  /\ OutcomeWithoutClosingPeriods = NoError
  /\ last.err.msg \in {"pick-up date has to be outside closing periods",
                       "delivery date has to be outside closing periods",
                       "reservation date has to be outside closing periods"}

\* the first allowed pick-up day and the outcome for a weekday table
LeadTimeFollows(table) ==
  (LeadTimeCase /\ (EffectiveDay % 7) \in DOMAIN table) =>
    LET d == Cmd.pickUpDate
        first == NextOccurrence(EffectiveDay, table[EffectiveDay % 7])
    IN /\ (DayOf(d) < first /\ DayOf(d) # EffectiveDay) =>
            last.err = InvalidOrderError("pick-up date has to be at least N days after now",
                                         <<d, first - EffectiveDay>>)
       /\ DayOf(d) >= first => Accepted

\* C9 (as the spec states it): for a non-admin pick-up order the first allowed date is
\* the next occurrence of the weekday given for the effective placement weekday by
\* Tuesday -> Saturday, Wednesday -> Saturday, Thursday -> Tuesday, Friday -> Tuesday,
\* Saturday -> Tuesday; an earlier date is refused with 'at least N days after now' and
\* that date or a later one is accepted.
C9_FirstAllowedDaySpecTable ==
  LeadTimeFollows((TUESDAY :> SATURDAY) @@ (WEDNESDAY :> SATURDAY) @@ (THURSDAY :> TUESDAY)
                  @@ (FRIDAY :> TUESDAY) @@ (SATURDAY :> TUESDAY))

\* C9 (amended): the same with Tuesday -> Thursday; a date before the first allowed one
\* that is not the effective placement day is refused with 'at least N days after now',
\* N being the days from the effective placement day to the first allowed date.
C9_FirstAllowedDay ==
  LeadTimeFollows((TUESDAY :> THURSDAY) @@ (WEDNESDAY :> SATURDAY) @@ (THURSDAY :> TUESDAY)
                  @@ (FRIDAY :> TUESDAY) @@ (SATURDAY :> TUESDAY))

\* an order counted as placed on a Tuesday is accepted for the Thursday of that week
C9_Witness ==
  /\ LeadTimeCase
  /\ EffectiveDay % 7 = TUESDAY
  /\ DayOf(Cmd.pickUpDate) = EffectiveDay + 2
  /\ Accepted
  /\ order.pickUpDate = Cmd.pickUpDate

\* C10: for a non-admin pick-up order a date on the effective placement day is refused
\* with 'pick-up date cannot be same day as now', and a date exactly seven days after
\* the effective placement day is accepted.
C10_SameDayAndNextWeek ==
  LeadTimeCase =>
    /\ DayOf(Cmd.pickUpDate) = EffectiveDay =>
         last.err = InvalidOrderError("pick-up date cannot be same day as now", <<Cmd.pickUpDate>>)
    /\ DayOf(Cmd.pickUpDate) = EffectiveDay + 7 => Accepted

\* placed at 19:00 or later for the following day, which is the effective placement day
C10_Witness ==
  /\ LeadTimeCase
  /\ getHours(last.at) >= 19
  /\ DayOf(Cmd.pickUpDate) = DayOf(last.at) + 1
  /\ last.err = InvalidOrderError("pick-up date cannot be same day as now", <<Cmd.pickUpDate>>)

\* the date block of the command's type passes every check of bindOrderTypeSelection
DateBlockIsValid ==
  LET d == OwnDate(Cmd)
  IN /\ Cmd.type \in OrderType
     /\ d \notin NoDate
     /\ DayOf(d) >= DayOf(last.at)
     /\ ~Inside(last.closingPeriods, d)
     /\ Cmd.type \in {PICK_UP, RESERVATION} => getDay(d) \in 2..6
     /\ Cmd.type = DELIVERY => (getDay(d) = THURSDAY /\ Cmd.deliveryAddress \notin {"", Undefined, Null})

LeadTimeMessages ==
  {"pick-up date cannot be same day as now", "pick-up date has to be at least N days after now",
   "delivery date has to be one of the next available Thursday"}

\* C11: a non-admin creation of a delivery for an otherwise valid Thursday is refused with
\* 'has to be one of the next available Thursday' exactly when the Thursday is less than
\* 7 calendar days after now, now's weekday is at most Thursday, and now is a Wednesday,
\* a Thursday, or a Tuesday at 19:00 or later; in every other case it is accepted.
C11_SameWeekDeliveryCutoff ==
  (/\ Called("create")
   /\ ~last.isAdmin
   /\ ReachesDates
   /\ Cmd.type = DELIVERY
   /\ DateBlockIsValid) =>
    LET d == Cmd.deliveryDate
        w == getDay(last.at)
        refused ==
          /\ DayOf(d) - DayOf(last.at) < 7
          /\ w <= THURSDAY
          /\ w \in {WEDNESDAY, THURSDAY} \/ (w = TUESDAY /\ getHours(last.at) >= 19)
    IN IF refused
         THEN last.err = InvalidOrderError("delivery date has to be one of the next available Thursday", <<d>>)
         ELSE Accepted /\ order.deliveryDate = d

\* placed on a Tuesday at 19:00 for the Thursday of the same week, and refused
C11_Witness ==
  /\ Called("create")
  /\ ~last.isAdmin
  /\ Cmd.type = DELIVERY
  /\ getDay(last.at) = TUESDAY
  /\ getHours(last.at) = 19
  /\ DayOf(Cmd.deliveryDate) = DayOf(last.at) + 2
  /\ last.err.msg = "delivery date has to be one of the next available Thursday"

\* C12: a creation by an admin is accepted whenever its contact details, products, type
\* and date block are valid, and never raises a lead-time error: a pick-up dated today
\* and a delivery for this week's Thursday placed on Tuesday from 19:00 on are accepted.
C12_AdminBypassesLeadTime ==
  (Called("create") /\ last.isAdmin) =>
    /\ last.err.msg \notin LeadTimeMessages
    /\ (ContactDetailsAreValid(Cmd) /\ ProductSelectionIsValid(Cmd) /\ DateBlockIsValid) =>
         (Accepted /\ order.type = Cmd.type)

\* an admin is given this week's Thursday on a Tuesday at 19:00
C12_Witness ==
  /\ Called("create")
  /\ last.isAdmin
  /\ Cmd.type = DELIVERY
  /\ getDay(last.at) = TUESDAY
  /\ getHours(last.at) >= 19
  /\ DayOf(Cmd.deliveryDate) = DayOf(last.at) + 2
  /\ Accepted
  /\ order.deliveryDate = Cmd.deliveryDate

\* what create gives an admin for the fields of the update command, with the contact
\* details a creation needs
AdminCreateOfUpdate ==
  Construct([Cmd EXCEPT !.clientName = "John Doe", !.clientPhoneNumber = "514-123-4567",
                        !.clientEmailAddress = "test@example.org"],
            activeProducts, last.closingPeriods, TRUE, last.at)

\* C13: an updateWith with a matching id succeeds exactly when create with isAdmin = true
\* accepts the same products, type, dates, address and note, and then yields the same
\* products, type, date fields, deliveryAddress and note; it accepts RESERVATION and
\* raises none of the lead-time errors.
C13_UpdateIsAdminCreate ==
  (Called("updateWith") /\ last.before.id = Cmd.orderId) =>
    LET c == AdminCreateOfUpdate
    IN /\ Accepted <=> c.err = NoError
       /\ Accepted =>
            /\ ProductsOf(order, activeProducts) = ProductsOf(c.obj, activeProducts)
            /\ order.type = c.obj.type
            /\ order.pickUpDate = c.obj.pickUpDate
            /\ order.deliveryDate = c.obj.deliveryDate
            /\ order.reservationDate = c.obj.reservationDate
            /\ order.deliveryAddress = c.obj.deliveryAddress
            /\ order.note = c.obj.note
       /\ last.err.msg \notin LeadTimeMessages
       /\ last.err.kind # "InvalidUserError"

\* an update to a pick-up dated today, which a non-admin creation refuses as the same day
C13_Witness ==
  /\ Called("updateWith")
  /\ Accepted
  /\ Cmd.type = PICK_UP
  /\ DayOf(Cmd.pickUpDate) = DayOf(last.at)
  /\ getHours(last.at) < 19
  /\ order.pickUpDate = Cmd.pickUpDate

\* C14: no step taken once the order exists, updateWith included, successful or failed,
\* changes its id, clientName, clientPhoneNumber or clientEmailAddress.
C14_IdentityAndContactKept ==
  [][order # NoOrder =>
       /\ order'.id = order.id
       /\ order'.clientName = order.clientName
       /\ order'.clientPhoneNumber = order.clientPhoneNumber
       /\ order'.clientEmailAddress = order.clientEmailAddress]_vars

\* an accepted update whose command carries other contact details
C14_Witness ==
  /\ Called("updateWith")
  /\ Accepted
  /\ Cmd.clientName = "Jane Roe"
  /\ order.clientName = last.before.clientName
  /\ order.clientName # Cmd.clientName
  /\ order.clientEmailAddress # Cmd.clientEmailAddress

\* the products of an order are not empty and every line has a quantity of at least 1
ProductsArePositive(o) ==
  /\ Len(o.products) >= 1
  /\ \A i \in 1..Len(o.products) : o.products[i].quantity >= 1

DateMatchesType(o) ==
  /\ o.type \in OrderType
  /\ o.pickUpDate \notin NoDate <=> o.type = PICK_UP
  /\ o.deliveryDate \notin NoDate <=> o.type = DELIVERY
  /\ o.reservationDate \notin NoDate <=> o.type = RESERVATION

\* C16 (as the spec states it): in every state of an order built by create or copy and
\* then updated, exactly one date field is populated and it is the one of its type.
C16_DateAlwaysMatchesType ==
  order # NoOrder => DateMatchesType(order)

\* C16 (amended): after every accepted create and every accepted updateWith exactly one
\* date field is populated and it is the one of the type; no later step undoes this; a
\* copy holds the type and the date fields of its source, matching or not.
C16_DateMatchesTypeOnceBound ==
  /\ []((CreateOrUpdate /\ Accepted) => DateMatchesType(order))
  /\ [](Called("copy") =>
          /\ order.type = last.before.type
          /\ order.pickUpDate = last.before.pickUpDate
          /\ order.deliveryDate = last.before.deliveryDate
          /\ order.reservationDate = last.before.reservationDate)
  /\ [][(order # NoOrder /\ DateMatchesType(order)) => DateMatchesType(order')]_vars

\* a copy whose delivery date was set although its type is pick-up is put right by an
\* accepted update
C16_Witness ==
  /\ Called("updateWith")
  /\ Accepted
  /\ ~DateMatchesType(last.before)
  /\ last.before.deliveryDate \notin NoDate
  /\ DateMatchesType(order)

\* C17: creating a closing period whose end date is earlier than its start date fails
\* with an InvalidClosingPeriodError, for every such pair of dates, and an end date equal
\* to the start date is not refused by that rule.
C17_EndBeforeStartRefused ==
  (/\ Called("createClosingPeriod")
   /\ Cmd.startDate \notin NoDate
   /\ Cmd.endDate \notin NoDate) =>
    /\ Cmd.endDate < Cmd.startDate =>
         (last.err.kind = "InvalidClosingPeriodError" /\ period = NoPeriod)
    /\ Cmd.endDate = Cmd.startDate =>
         /\ last.err.msg # "end date has to be greater than start date"
         /\ DayOf(Cmd.startDate) >= DayOf(last.at) => Accepted

\* both dates are today or later, the end date is earlier than the start date on the same
\* day, and the order of the dates is what the error names
C17_Witness ==
  /\ Called("createClosingPeriod")
  /\ Cmd.startDate \notin NoDate
  /\ Cmd.endDate \notin NoDate
  /\ DayOf(Cmd.endDate) = DayOf(Cmd.startDate)
  /\ Cmd.endDate < Cmd.startDate
  /\ last.err = InvalidClosingPeriodError("end date has to be greater than start date")

\* C18: creating a closing period succeeds exactly when both dates are present, neither
\* is on a calendar day before today (a date of today is accepted at any hour), and the
\* end date is not earlier than the start date; the period then holds the command's dates.
C18_ClosingPeriodAccepted ==
  Called("createClosingPeriod") =>
    /\ Accepted <=>
         /\ Cmd.startDate \notin NoDate
         /\ Cmd.endDate \notin NoDate
         /\ DayOf(Cmd.startDate) >= DayOf(last.at)
         /\ DayOf(Cmd.endDate) >= DayOf(last.at)
         /\ Cmd.endDate >= Cmd.startDate
    /\ Accepted => (period.startDate = Cmd.startDate /\ period.endDate = Cmd.endDate)

\* a period that starts today at an hour earlier than now is created
C18_Witness ==
  /\ Called("createClosingPeriod")
  /\ Accepted
  /\ DayOf(Cmd.startDate) = DayOf(last.at)
  /\ Cmd.startDate < last.at
  /\ Cmd.endDate > last.at
  /\ period.startDate = Cmd.startDate

\* C19 (as the spec states it): a newly created order has checked = false; check() sets
\* checked to true and uncheck() sets it to false, without raising and without changing
\* any other field.
C19_CheckedFlag ==
  /\ (Called("create") /\ Accepted) => order.checked = CheckedFalse
  /\ Called("check") =>
       (Accepted /\ order = [last.before EXCEPT !.checked = CheckedTrue])
  /\ Called("uncheck") =>
       (Accepted /\ order = [last.before EXCEPT !.checked = CheckedFalse])

----------------------------------------------------------------------------
(* The rules of create and updateWith, one by one: the error of a rule when the *)
(* command breaks it, NoError otherwise                                         *)

RuleOf(broken, err) == IF broken THEN err ELSE NoError

\* contact details: name, phone, email defined, email format
ContactRules(c) ==
  <<RuleOf(c.clientName \in {"", Undefined, Null},
           InvalidOrderError("client name has to be defined", <<>>)),
    RuleOf(c.clientPhoneNumber \in {"", Undefined, Null},
           InvalidOrderError("client phone number has to be defined", <<>>)),
    RuleOf(c.clientEmailAddress \in {"", Undefined, Null},
           InvalidOrderError("client email address has to be defined", <<>>)),
    RuleOf(c.clientEmailAddress \notin {"", Undefined, Null, "test@example.org"},
           InvalidOrderErrorText("invalid client email address", c.clientEmailAddress))>>

\* products: list non-empty, every quantity at least 1, every id resolved
ProductRules(c, products) ==
  LET lines == c.products
      bad == {i \in 1..Len(lines) : lines[i].quantity < 1}
      missing == {i \in 1..Len(lines) : \A j \in 1..Len(products) : products[j].id # lines[i].productId}
      first(S) == IF S = {} THEN 0 ELSE CHOOSE i \in S : \A k \in S : i <= k
  IN <<RuleOf(Len(lines) = 0, InvalidOrderError("an order must have at least one product", <<>>)),
       IF bad = {} THEN NoError
       ELSE InvalidOrderError("product quantity has to be positive", <<lines[first(bad)].quantity>>),
       IF missing = {} THEN NoError
       ELSE InvalidOrderError("product with id not found", <<lines[first(missing)].productId>>)>>

\* type: defined, known, RESERVATION requires admin
TypeRules(c, isAdmin) ==
  <<RuleOf(c.type \in {"", Undefined, Null}, InvalidOrderError("order type has to be defined", <<>>)),
    RuleOf(c.type \notin OrderType \cup {"", Undefined, Null},
           InvalidOrderErrorText("unknown order type", c.type)),
    RuleOf(c.type = RESERVATION /\ ~isAdmin,
           InvalidUserError("RESERVATION order type requires to be ADMIN"))>>

\* the command has a known type and a date for it
HasOwnDate(c) == c.type \in OrderType /\ OwnDate(c) \notin NoDate

DateRequiredRule(c) ==
  RuleOf(c.type \in OrderType /\ OwnDate(c) \in NoDate,
         InvalidOrderError(
           CASE c.type = PICK_UP -> "a pick-up date has to be defined when order type is pick-up"
             [] c.type = DELIVERY -> "a delivery date has to be defined when order type is delivery"
             [] OTHER -> "a reservation date has to be defined when order type is reservation",
           <<>>))

AddressRequiredRule(c) ==
  RuleOf(c.type = DELIVERY /\ c.deliveryAddress \in {"", Undefined, Null},
         InvalidOrderError("a delivery address has to be defined when order type is delivery", <<>>))

NotBeforeTodayRule(c, clock) ==
  RuleOf(HasOwnDate(c) /\ DayOf(OwnDate(c)) < DayOf(clock),
         InvalidOrderError(
           CASE c.type = PICK_UP -> "pick-up date has to be in the future"
             [] c.type = DELIVERY -> "delivery date has to be in the future"
             [] OTHER -> "reservation date has to be in the future",
           <<OwnDate(c)>>))

TuesdayToSaturdayRule(c) ==
  RuleOf(HasOwnDate(c) /\ c.type \in {PICK_UP, RESERVATION} /\ getDay(OwnDate(c)) \notin 2..6,
         InvalidOrderError(
           CASE c.type = PICK_UP -> "pick-up date has to be between a Tuesday and a Saturday"
             [] OTHER -> "reservation date has to be between a Tuesday and a Saturday",
           <<OwnDate(c)>>))

OutsideClosingPeriodsRule(c, closingPeriods) ==
  RuleOf(HasOwnDate(c) /\ Inside(closingPeriods, OwnDate(c)),
         InvalidOrderError(
           CASE c.type = PICK_UP -> "pick-up date has to be outside closing periods"
             [] c.type = DELIVERY -> "delivery date has to be outside closing periods"
             [] OTHER -> "reservation date has to be outside closing periods",
           <<OwnDate(c)>>))

ThursdayRule(c) ==
  RuleOf(HasOwnDate(c) /\ c.type = DELIVERY /\ getDay(OwnDate(c)) # THURSDAY,
         InvalidOrderError("delivery date has to be a Thursday", <<OwnDate(c)>>))

\* the lead-time rule of a creation by a non-admin
LeadTimeRule(c, isAdmin, clock) ==
  IF isAdmin \/ ~HasOwnDate(c) THEN NoError
  ELSE FirstError(<<assertPickUpDateIsEqualOrAfterTheFirstAvailableDay(c.type, c.pickUpDate, clock, clock),
                    assertDeliveryDateIsEqualOrAfterTheFirstAvailableDay(c.type, c.deliveryDate, clock)>>)

\* the rules around the date block of the call observed, dateBlock being the rules of
\* the date block in their order
RulesAround(dateBlock) ==
  (IF Called("create") THEN ContactRules(Cmd) ELSE <<>>)
    \o ProductRules(Cmd, activeProducts)
    \o TypeRules(Cmd, last.isAdmin)
    \o dateBlock
    \o (IF Called("create") THEN <<LeadTimeRule(Cmd, last.isAdmin, last.at)>> ELSE <<>>)

\* a create, or an updateWith whose command carries the id of the order
RulesApply ==
  \/ Called("create")
  \/ Called("updateWith") /\ last.before.id = Cmd.orderId

\* C20 (as the spec states it): create and updateWith raise the error of the first rule
\* the command breaks, the rules taken in the order: contact details, products, type, the
\* date block (pick-up and reservation: date required, not before today, Tuesday to
\* Saturday, outside closing periods; delivery: date required, address required, not
\* before today, outside closing periods, Thursday), lead time.
C20_RulesAsListed ==
  RulesApply =>
    last.err = FirstError(RulesAround(
                 <<DateRequiredRule(Cmd), AddressRequiredRule(Cmd), NotBeforeTodayRule(Cmd, last.at),
                   TuesdayToSaturdayRule(Cmd), OutsideClosingPeriodsRule(Cmd, last.closingPeriods),
                   ThursdayRule(Cmd)>>))

\* C20: create and updateWith raise the error of the first rule the command breaks, the
\* rules taken in the order: contact details, products, type, the date block (pick-up and
\* reservation: date required, not before today, Tuesday to Saturday, outside closing
\* periods; delivery: date required, not before today, outside closing periods, Thursday,
\* and only then address required), lead time; no error when no rule is broken.
C20_FirstBrokenRule ==
  RulesApply =>
    last.err = FirstError(RulesAround(
                 <<DateRequiredRule(Cmd), NotBeforeTodayRule(Cmd, last.at),
                   TuesdayToSaturdayRule(Cmd), OutsideClosingPeriodsRule(Cmd, last.closingPeriods),
                   ThursdayRule(Cmd), AddressRequiredRule(Cmd)>>))

\* a creation of a delivery without an address, for a date in the past that is in a
\* closing period and is not a Thursday: the error is the one of the date in the past
C20_Witness ==
  /\ Called("create")
  /\ ContactDetailsAreValid(Cmd)
  /\ ProductSelectionIsValid(Cmd)
  /\ Cmd.type = DELIVERY
  /\ Cmd.deliveryAddress = ""
  /\ Cmd.deliveryDate \notin NoDate
  /\ DayOf(Cmd.deliveryDate) < DayOf(last.at)
  /\ Inside(last.closingPeriods, Cmd.deliveryDate)
  /\ getDay(Cmd.deliveryDate) # THURSDAY
  /\ last.err = InvalidOrderError("delivery date has to be in the future", <<Cmd.deliveryDate>>)

----------------------------------------------------------------------------
(* The 19:00 cutoff and the lead times of a pick-up order *)

\* the error the call observed raises when every reading of the clock is clock
OutcomeReadingOnly(clock) ==
  IF Called("create")
    THEN Construct(Cmd, activeProducts, last.closingPeriods, last.isAdmin, clock).err
    ELSE UpdateWith(last.before, Cmd, activeProducts, last.closingPeriods, clock).err

\* a creation of a pick-up order by a non-admin
NonAdminPickUp == Called("create") /\ ~last.isAdmin /\ Cmd.type = PICK_UP

\* C21: a non-admin pick-up creation placed on day D at 19:00 or later is accepted exactly
\* when the same command, with the same closing periods, placed on day D+1 before 19:00
\* is; placed before 19:00 it is accepted exactly when its date block is valid, the date
\* is not on day D and is not before the first allowed date counted from day D itself.
C21_CutoffShiftsPlacementDay ==
  NonAdminPickUp =>
    LET today == DayOf(last.at)
        d == Cmd.pickUpDate
    IN /\ getHours(last.at) >= 19 =>
            (Accepted <=> OutcomeReadingOnly(At(today + 1, 10)) = NoError)
       /\ getHours(last.at) < 19 =>
            (Accepted <=>
               /\ DateBlockIsValid
               /\ DayOf(d) # today
               /\ DayOf(d) >= NextOccurrence(today, AVAILABLE_DAYS_FOR_A_PICK_UP_ORDER[today % 7]))

\* placed on a Tuesday at 19:00 for the Thursday of that week: refused, as on the
\* Wednesday, although the same command placed that Tuesday at 10:00 is accepted
C21_Witness ==
  /\ NonAdminPickUp
  /\ getDay(last.at) = TUESDAY
  /\ getHours(last.at) = 19
  /\ DayOf(Cmd.pickUpDate) = DayOf(last.at) + 2
  /\ last.closingPeriods = <<>>
  /\ ~Accepted
  /\ OutcomeReadingOnly(At(DayOf(last.at) + 1, 10)) # NoError
  /\ OutcomeReadingOnly(At(DayOf(last.at), 10)) = NoError

\* the error of a pick-up date before the first allowed one, n days after now
AtLeastDaysAfterNow(d, n) ==
  InvalidOrderError("pick-up date has to be at least N days after now", <<d, n>>)

\* C22: a non-admin pick-up creation placed before 19:00 on a Sunday is accepted for the
\* following Tuesday; on a Monday it is refused for the following Tuesday and Wednesday
\* with 'at least 3 days after now' and accepted for the following Thursday; on a Tuesday
\* it is refused for the following Wednesday with 'at least 2 days after now' and accepted
\* for the following Thursday; no earlier day than these is accepted.
C22_FirstDaysOfTheWeek ==
  (NonAdminPickUp /\ getHours(last.at) < 19 /\ Cmd.pickUpDate \notin NoDate) =>
    LET today == DayOf(last.at)
        d == Cmd.pickUpDate
        after == DayOf(d) - today
        free == ~Inside(last.closingPeriods, d)
    IN /\ (getDay(last.at) = SUNDAY /\ free) =>
            /\ after = 2 => Accepted
            /\ after < 2 => ~Accepted
       /\ (getDay(last.at) = MONDAY /\ free) =>
            /\ after \in {1, 2} => last.err = AtLeastDaysAfterNow(d, 3)
            /\ after = 3 => Accepted
            /\ after < 3 => ~Accepted
       /\ (getDay(last.at) = TUESDAY /\ free) =>
            /\ after = 1 => last.err = AtLeastDaysAfterNow(d, 2)
            /\ after = 2 => Accepted
            /\ after < 2 => ~Accepted

\* placed on a Monday at 10:00 for the Wednesday of that week: at least 3 days
C22_Witness ==
  /\ NonAdminPickUp
  /\ getDay(last.at) = MONDAY
  /\ getHours(last.at) < 19
  /\ DayOf(Cmd.pickUpDate) = DayOf(last.at) + 2
  /\ last.err = AtLeastDaysAfterNow(Cmd.pickUpDate, 3)

\* the error of a date of the command's type that is before today
HasToBeInTheFuture(c) ==
  InvalidOrderError(
    CASE c.type = PICK_UP -> "pick-up date has to be in the future"
      [] c.type = DELIVERY -> "delivery date has to be in the future"
      [] c.type = RESERVATION -> "reservation date has to be in the future",
    <<OwnDate(c)>>)

\* C23: on create and on updateWith, a pick-up, delivery or reservation date on a calendar
\* day before today is refused with '<type> date has to be in the future', and a date on
\* today's calendar day or later is not, even when its time of day is earlier than now.
C23_PastDateByDay ==
  (CreateOrUpdate /\ ReachesDates /\ OwnDate(Cmd) \notin NoDate) =>
    LET d == OwnDate(Cmd)
    IN /\ DayOf(d) < DayOf(last.at) => last.err = HasToBeInTheFuture(Cmd)
       /\ DayOf(d) >= DayOf(last.at) => last.err # HasToBeInTheFuture(Cmd)

\* an update to a delivery on today's Thursday at 04:00, made later that day: accepted
C23_Witness ==
  /\ Called("updateWith")
  /\ Cmd.type = DELIVERY
  /\ DayOf(Cmd.deliveryDate) = DayOf(last.at)
  /\ Cmd.deliveryDate < last.at
  /\ Accepted
  /\ order.deliveryDate = Cmd.deliveryDate

\* C24: a delivery order accepted by create, admin or not, or by updateWith has a delivery
\* date that is a Thursday and a delivery address that is not empty; a date that passes
\* the checks made before the weekday and is not a Thursday is refused with 'delivery date
\* has to be a Thursday', and an empty address with a valid date is refused with 'a
\* delivery address has to be defined when order type is delivery'.
C24_DeliveryOnThursdayWithAddress ==
  (CreateOrUpdate /\ Cmd.type = DELIVERY) =>
    LET d == Cmd.deliveryDate
        checkedBefore ==
          /\ ReachesDates
          /\ d \notin NoDate
          /\ DayOf(d) >= DayOf(last.at)
          /\ ~Inside(last.closingPeriods, d)
    IN /\ Accepted =>
            /\ order.type = DELIVERY
            /\ order.deliveryDate \notin NoDate
            /\ getDay(order.deliveryDate) = THURSDAY
            /\ order.deliveryAddress \notin {"", Undefined, Null}
       /\ (checkedBefore /\ getDay(d) # THURSDAY) =>
            last.err = InvalidOrderError("delivery date has to be a Thursday", <<d>>)
       /\ (checkedBefore /\ getDay(d) = THURSDAY /\ Cmd.deliveryAddress = "") =>
            last.err = InvalidOrderError(
                         "a delivery address has to be defined when order type is delivery", <<>>)

\* an admin creates a delivery with an address for a coming Sunday: not a Thursday
C24_Witness ==
  /\ Called("create")
  /\ last.isAdmin
  /\ Cmd.type = DELIVERY
  /\ Cmd.deliveryAddress # ""
  /\ Cmd.deliveryDate \notin NoDate
  /\ getDay(Cmd.deliveryDate) = SUNDAY
  /\ last.err = InvalidOrderError("delivery date has to be a Thursday", <<Cmd.deliveryDate>>)

----------------------------------------------------------------------------
(* Order.factory.copy *)

\* the order holds none of the caller's product objects: each line has its own
Detached(o) == \A i \in 1..Len(o.products) : o.products[i].ref = 0

\* the fields of an order as a reader sees them
Seen(o, products) == [o EXCEPT !.products = ProductsOf(o, products)]

\* C25 (as the spec states it): copy never raises, whatever it is given, and returns an
\* order whose every field equals the source's.
C25_CopyNeverRaises ==
  Called("copy") => (Accepted /\ Seen(order, activeProducts) = Seen(last.before, activeProducts))

\* C25: copy of a source that has at least one property, valid or not, does not raise and
\* returns an order whose every field equals the source's and whose lines hold product
\* objects of their own; a later change of a product object the source holds does not
\* change the copy, and an updateWith of the copy changes no product object; copy of an
\* object without any property raises 'client name has to be defined'.
C25_CopyIsDetached ==
  /\ []((Called("copy") /\ last.before # NoOrder) =>
          /\ Accepted
          /\ Seen(order, activeProducts) = Seen(last.before, activeProducts)
          /\ Detached(order))
  /\ []((Called("copy") /\ last.before = NoOrder) =>
          /\ last.err = InvalidOrderError("client name has to be defined", <<>>)
          /\ order = NoOrder)
  /\ [][(Detached(order) /\ activeProducts' # activeProducts) =>
          Seen(order', activeProducts') = Seen(order, activeProducts)]_vars
  /\ [][last'.op = "updateWith" => activeProducts' = activeProducts]_vars

\* the copy of an order that create would refuse (a pick-up order with a delivery date
\* and address) whose line holds a product object of the caller's array
C25_Witness ==
  /\ Called("copy")
  /\ Accepted
  /\ ~DateMatchesType(last.before)
  /\ ~Detached(last.before)
  /\ Detached(order)
  /\ order.deliveryAddress = "Montreal"

----------------------------------------------------------------------------
(* The readings of the clock *)

\* C26 (as the spec states it): when the clock moves on while a create or updateWith
\* runs, the outcome is the one computed entirely with the first reading of the clock.
C26_OneClockReading ==
  CreateOrUpdate => last.err = OutcomeReadingOnly(last.at)

----------------------------------------------------------------------------
(* The repository under concurrent updates *)

\* C27 (as the spec states it): when the order has been deleted after an update loaded
\* it, the save of that update writes nothing and the update does not complete: the
\* order stays absent from the store.
C27_VanishedStaysAbsent ==
  [][repo.store[StoredId] = NoOrder =>
       /\ repo'.store = repo.store
       /\ \A p \in Procs : repo'.pc[p] = "done" => repo.pc[p] = "done"]_vars

\* the row after the update with command, applied to row on its own
Applied(row, command) ==
  LET r == UpdateWith(FactoryCopy(row, activeProducts, now).obj, command, activeProducts,
                      command.closingPeriods, now)
  IN IF r.err = NoError THEN Row(r.obj, activeProducts) ELSE row

\* C28: when two updates of the same order, each findById, updateWith, save, have ended,
\* their steps in any order and the order not deleted meanwhile, the stored order is the
\* one that applying the two updates one after the other, in one of the two orders,
\* gives, and no other row was written.
C28_SerialOutcome ==
  ((\A p \in Procs : repo.pc[p] \in {"done", "failed"}) /\ ~repo.deleted) =>
    /\ \/ repo.store[StoredId] = Applied(Applied(StoredOrder, repo.cmd[1]), repo.cmd[2])
       \/ repo.store[StoredId] = Applied(Applied(StoredOrder, repo.cmd[2]), repo.cmd[1])
    /\ repo.store[GeneratedId] = NoOrder

\* both updates are accepted and saved, the second save made from a snapshot loaded
\* before the first: the stored order is the one of the later save
C28_Witness ==
  /\ \A p \in Procs : repo.pc[p] = "done"
  /\ repo.raced
  /\ ~repo.deleted
  /\ repo.cmd[1].type = PICK_UP
  /\ repo.cmd[2].type = DELIVERY
  /\ repo.store[StoredId].type = PICK_UP
  /\ repo.store[StoredId].note = "first"

----------------------------------------------------------------------------
(* The shortest lead times *)

\* C29: a pick-up order accepted by a non-admin create has a pick-up date at least 2
\* calendar days after the day the order is placed on, at every weekday and hour; a date
\* on that day or on the day after is never accepted.
C29_PickUpTwoDaysAhead ==
  (NonAdminPickUp /\ Cmd.pickUpDate \notin NoDate) =>
    /\ Accepted => DayOf(order.pickUpDate) >= DayOf(last.at) + 2
    /\ DayOf(Cmd.pickUpDate) \in {DayOf(last.at), DayOf(last.at) + 1} => ~Accepted

\* placed on a Friday at 19:00 for the Saturday, an open day outside every closing
\* period: refused
C29_Witness ==
  /\ LeadTimeCase
  /\ getDay(last.at) = FRIDAY
  /\ getHours(last.at) >= 19
  /\ DayOf(Cmd.pickUpDate) = DayOf(last.at) + 1
  /\ ~Accepted

\* C30: a delivery order accepted by a non-admin create has a delivery date at least 2
\* calendar days after the day the order is placed on; a Thursday is not accepted when the
\* order is placed on that Thursday, on the Wednesday before it, or on the Tuesday before
\* it at 19:00 or later; an order placed on a Friday or a Saturday is accepted for the
\* coming Thursday when nothing else is wrong with it.
C30_DeliveryTwoDaysAhead ==
  (Called("create") /\ ~last.isAdmin /\ Cmd.type = DELIVERY /\ Cmd.deliveryDate \notin NoDate) =>
    LET d == Cmd.deliveryDate
        after == DayOf(d) - DayOf(last.at)
    IN /\ Accepted => DayOf(order.deliveryDate) >= DayOf(last.at) + 2
       /\ (getDay(d) = THURSDAY /\ after \in {0, 1}) => ~Accepted
       /\ (getDay(d) = THURSDAY /\ after = 2 /\ getHours(last.at) >= 19) => ~Accepted
       /\ (/\ getDay(last.at) \in {FRIDAY, SATURDAY}
           /\ after \in 1..6
           /\ DateBlockIsValid) => Accepted

\* placed on a Tuesday at 19:00 for the Thursday of that week, outside every closing
\* period: refused
C30_Witness ==
  /\ Called("create")
  /\ ~last.isAdmin
  /\ Cmd.type = DELIVERY
  /\ DateBlockIsValid
  /\ getDay(last.at) = TUESDAY
  /\ getHours(last.at) = 19
  /\ DayOf(Cmd.deliveryDate) = DayOf(last.at) + 2
  /\ last.err = InvalidOrderError("delivery date has to be one of the next available Thursday",
                                  <<Cmd.deliveryDate>>)

====
